---- MODULE Spec2Model ----
(***************************************************************************)
(* A model of the review core of the PRISM extension: the diff parser      *)
(* (DiffEngine.parse), the risk scorer (RiskAnalyzer.analyze), the review   *)
(* orchestrator (ReviewEngine.reviewChunk over CopilotService.ask) and the  *)
(* deep-analysis engine (DeepAnalysisEngine.analyze / compareWithModels),   *)
(* and of what drives them: GitHubAdapter.getDiff and the commands          *)
(* prism.reviewPR, prism.multiModelReview and prism.mergePR.                *)
(*                                                                         *)
(* Text is a sequence of tokens.  A token is either a single character     *)
(* that the code's regular expressions and JSON.parse distinguish (a       *)
(* quote, a brace, a line terminator, ...) or an atom standing for a run   *)
(* of ordinary characters (a word, a number literal, the three backticks   *)
(* of a code fence).                                                       *)
(***************************************************************************)
EXTENDS Integers, Sequences, FiniteSets, TLC

VARIABLES
    pc,               \* position of the running operation ("idle" when none)
    chunk,            \* reviewChunk: the chunk under review
    mode,             \* reviewChunk / analyze / compareWithModels: the review mode
    modelId,          \* the backend id of the running backend call (NoModel if none)
    rawResponse,      \* the text the last backend call resolved with
    outcome,          \* how the operation ended: "none", "returned", "threw"
    result,           \* the value the operation returned
    activeModelName,  \* CopilotService.activeModelName
    askCount,         \* number of backend calls started by the running operation
    backend,          \* what the last backend call did: "none", "resolved", "rejected"
    prNumber,         \* analyze / compareWithModels: the pull request
    chunks,           \* the chunk list an operation is given, or parse has produced
    changedFiles,     \* analyze / compareWithModels: the changed files
    modelIds,         \* compareWithModels: the requested backend ids
    results,          \* compareWithModels: the reports pushed so far
    fates,            \* compareWithModels: what each backend call did, in order
    diff,             \* parse: the diff text
    reports,          \* RiskAnalyzer.analyze: the reports returned
    calls,            \* reviewChunk calls in flight at the same time, by caller
    session,          \* prism.reviewPR / prism.multiModelReview: the running command
    merge,            \* prism.mergePR: the running command
    fetch             \* GitHubAdapter.getDiff: its arguments, the diff fetched, its result

callVars   == <<pc, modelId, rawResponse, outcome, result, activeModelName, askCount, backend>>
reviewVars == <<chunk, mode>>
deepVars   == <<prNumber, chunks, changedFiles, modelIds, results, fates>>
riskVars   == <<diff, reports>>
overlapVars == <<calls>>
commandVars == <<session, merge, fetch>>

vars == <<callVars, reviewVars, deepVars, riskVars, overlapVars, commandVars>>

----------------------------------------------------------------------------
(* Tokens *)

LF    == "<LF>"      \* U+000A: a line terminator and white space; a control character for JSON
LS    == "<LS>"      \* U+2028: a line terminator and white space; an ordinary character inside a JSON string
SP    == " "
FENCE == "<FENCE>"  \* three backticks
QUOTE == "<QUOTE>"

\* LineTerminator of ECMAScript: what ^ and $ of a /m regular expression anchor at.
IsLineTerminator(c) == c \in {LF, LS}

\* \s of a regular expression, and what String.prototype.trim removes.
IsWhiteSpace(c) == c \in {SP, LF, LS}

\* White space of the JSON grammar (space, tab, LF, CR).
IsJsonWs(c) == c \in {SP, LF}

\* Characters JSON.parse rejects unescaped inside a string (U+0000..U+001F).
IsJsonControl(c) == c \in {LF}

NumTokens == {"-5", "0", "1", "2", "12", "21", "50", "51", "60", "72", "100", "500"}

NumValue(c) ==
    CASE c = "-5"  -> -5
      [] c = "0"   -> 0
      [] c = "1"   -> 1
      [] c = "2"   -> 2
      [] c = "12"  -> 12
      [] c = "21"  -> 21
      [] c = "51"  -> 51
      [] c = "60"  -> 60
      [] c = "50"  -> 50
      [] c = "72"  -> 72
      [] c = "100" -> 100
      [] c = "500" -> 500

Min(S) == CHOOSE x \in S : \A y \in S : x <= y
Max(S) == CHOOSE x \in S : \A y \in S : x >= y

----------------------------------------------------------------------------
(* JavaScript values.  Every value is a record of one shape; t is its type. *)

JVal(t, b, n, s, a, k) == [t |-> t, b |-> b, n |-> n, s |-> s, a |-> a, k |-> k]

JUndefined == JVal("undefined", FALSE, 0, <<>>, <<>>, <<>>)
JNull      == JVal("null", FALSE, 0, <<>>, <<>>, <<>>)
JNaN       == JVal("nan", FALSE, 0, <<>>, <<>>, <<>>)
JBool(b)   == JVal("boolean", b, 0, <<>>, <<>>, <<>>)
JNum(n)    == JVal("number", FALSE, n, <<>>, <<>>, <<>>)
JStr(s)    == JVal("string", FALSE, 0, s, <<>>, <<>>)
JArr(a)    == JVal("array", FALSE, 0, <<>>, a, <<>>)
\* An object: keys k (each a string) and, at the same positions, values a.
JObj(k, a) == JVal("object", FALSE, 0, <<>>, a, k)

\* v ?? d
Nullish(v) == v.t \in {"null", "undefined"}
Coalesce(v, d) == IF Nullish(v) THEN d ELSE v

\* v.key for a value that is neither null nor undefined: an own property of
\* an object (the last member of that name wins in JSON.parse), undefined on
\* anything else.
GetProp(v, key) ==
    IF v.t = "object" /\ \E i \in 1..Len(v.k) : v.k[i] = key
    THEN v.a[Max({i \in 1..Len(v.k) : v.k[i] = key})]
    ELSE JUndefined

\* Reading a property of null or undefined throws a TypeError.
PropThrows(v) == Nullish(v)

----------------------------------------------------------------------------
(* String.prototype.trim *)

Trim(t) ==
    LET keep == {i \in 1..Len(t) : ~IsWhiteSpace(t[i])}
    IN  IF keep = {} THEN <<>> ELSE SubSeq(t, Min(keep), Max(keep))

\* The end of the run of white space that starts at position i (i - 1 if
\* t[i] is not white space).
WsRunEnd(t, i) ==
    LET stop == {j \in i..Len(t) : ~IsWhiteSpace(t[j])}
    IN  IF stop = {} THEN Len(t) ELSE Min(stop) - 1

\* The start of the run of white space that ends at position i.
WsRunStart(t, i) ==
    LET stop == {j \in 1..i : ~IsWhiteSpace(t[j])}
    IN  IF stop = {} THEN 1 ELSE Max(stop) + 1

\* replace(/^FENCE(?:json)?\s*/m, empty): the first fence that starts a line
\* is removed with an optional "json" and the white space after it.
StripOpenFence(t) ==
    LET at == {i \in 1..Len(t) :
                  t[i] = FENCE /\ (i = 1 \/ IsLineTerminator(t[i - 1]))}
    IN  IF at = {} THEN t
        ELSE LET i == Min(at)
                 j == IF i < Len(t) /\ t[i + 1] = "json" THEN i + 1 ELSE i
             IN  SubSeq(t, 1, i - 1) \o SubSeq(t, WsRunEnd(t, j + 1) + 1, Len(t))

\* replace(/\s*FENCE$/m, empty): the first fence that ends a line is removed
\* with the white space before it.
StripCloseFence(t) ==
    LET at == {i \in 1..Len(t) :
                  t[i] = FENCE /\ (i = Len(t) \/ IsLineTerminator(t[i + 1]))}
    IN  IF at = {} THEN t
        ELSE LET i == Min(at)
             IN  SubSeq(t, 1, WsRunStart(t, i - 1) - 1) \o SubSeq(t, i + 1, Len(t))

StripFences(t) == Trim(StripCloseFence(StripOpenFence(t)))

----------------------------------------------------------------------------
(* JSON.parse.  A parse step returns [ok, v, next]: whether a value was read *)
(* at position i, the value, and the position after it.                     *)

PFail == [ok |-> FALSE, v |-> JUndefined, next |-> 0]
POk(v, next) == [ok |-> TRUE, v |-> v, next |-> next]

SkipJsonWs(t, i) ==
    LET stop == {j \in i..Len(t) : ~IsJsonWs(t[j])}
    IN  IF stop = {} THEN Len(t) + 1 ELSE Min(stop)

\* t[i] is the opening quote.
ParseString(t, i) ==
    LET close == {j \in (i + 1)..Len(t) : t[j] = QUOTE}
    IN  IF close = {} THEN PFail
        ELSE LET j == Min(close)
             IN  IF \E m \in (i + 1)..(j - 1) : IsJsonControl(t[m])
                 THEN PFail
                 ELSE POk(JStr(SubSeq(t, i + 1, j - 1)), j + 1)

\* The one element of a singleton.  Binding a computed value as the element
\* of a singleton evaluates it once however often it is then read.
The(S) == CHOOSE x \in S : TRUE

RECURSIVE ParseValue(_, _)
RECURSIVE ParseElements(_, _, _)
RECURSIVE ParseMembers(_, _, _, _)

\* An element e of an array has been read; acc are the elements before it.
ElementsAfter(t, e, acc) ==
    IF ~e.ok THEN PFail
    ELSE LET j == SkipJsonWs(t, e.next)
         IN  IF j > Len(t) THEN PFail
             ELSE IF t[j] = "]" THEN POk(JArr(Append(acc, e.v)), j + 1)
             ELSE IF t[j] = "," THEN ParseElements(t, j + 1, Append(acc, e.v))
             ELSE PFail

\* After "[" or after a comma of an array: the elements read so far are acc.
ParseElements(t, i, acc) ==
    The({ElementsAfter(t, e, acc) : e \in {ParseValue(t, i)}})

\* The value e of the member named key has been read.
MembersAfter(t, key, e, ks, vs) ==
    IF ~e.ok THEN PFail
    ELSE LET d == SkipJsonWs(t, e.next)
         IN  IF d > Len(t) THEN PFail
             ELSE IF t[d] = "}"
                  THEN POk(JObj(Append(ks, key), Append(vs, e.v)), d + 1)
             ELSE IF t[d] = ","
                  THEN ParseMembers(t, d + 1, Append(ks, key), Append(vs, e.v))
             ELSE PFail

\* After "{" or after a comma of an object.
ParseMembers(t, i, ks, vs) ==
    LET j == SkipJsonWs(t, i)
    IN  IF j > Len(t) \/ t[j] # QUOTE THEN PFail
        ELSE LET key == ParseString(t, j)
                 c   == IF key.ok THEN SkipJsonWs(t, key.next) ELSE 0
             IN  IF ~key.ok \/ c > Len(t) \/ t[c] # ":" THEN PFail
                 ELSE The({MembersAfter(t, key.v.s, e, ks, vs) :
                              e \in {ParseValue(t, c + 1)}})

ParseValue(t, i) ==
    LET j == SkipJsonWs(t, i)
    IN  IF j > Len(t) THEN PFail
        ELSE IF t[j] \in NumTokens THEN POk(JNum(NumValue(t[j])), j + 1)
        ELSE IF t[j] = "null" THEN POk(JNull, j + 1)
        ELSE IF t[j] = "true" THEN POk(JBool(TRUE), j + 1)
        ELSE IF t[j] = "false" THEN POk(JBool(FALSE), j + 1)
        ELSE IF t[j] = QUOTE THEN ParseString(t, j)
        ELSE IF t[j] = "["
             THEN LET c == SkipJsonWs(t, j + 1)
                  IN  IF c <= Len(t) /\ t[c] = "]" THEN POk(JArr(<<>>), c + 1)
                      ELSE ParseElements(t, j + 1, <<>>)
        ELSE IF t[j] = "{"
             THEN LET c == SkipJsonWs(t, j + 1)
                  IN  IF c <= Len(t) /\ t[c] = "}" THEN POk(JObj(<<>>, <<>>), c + 1)
                      ELSE ParseMembers(t, j + 1, <<>>, <<>>)
        ELSE PFail

\* A value r has been read from the start of t: nothing but white space may
\* follow it.
WholeText(t, r) ==
    IF r.ok /\ SkipJsonWs(t, r.next) > Len(t) THEN r ELSE PFail

\* JSON.parse(t): [ok |-> FALSE] stands for the SyntaxError it throws.
JSONParse(t) == The({WholeText(t, r) : r \in {ParseValue(t, 1)}})

----------------------------------------------------------------------------
(* CopilotService *)

NoModel == "<none>"     \* ask(prompt) called without a model id

\* What vscode.lm.selectChatModels can answer: the installed chat models, or
\* none when Copilot Chat is signed out.
ModelAlpha == [id |-> "gpt-4o", name |-> "GPT-4o", family |-> "gpt-4o"]
ModelBeta  == [id |-> "claude-sonnet-4", name |-> "Claude Sonnet 4", family |-> "claude-sonnet-4"]
ModelLists == {<<>>, <<ModelAlpha, ModelBeta>>}

\* The ids a caller may ask for: the ids of the two models, a fragment of a
\* model's search text, and an id no model has.
RequestIds == {"gpt-4o", "claude-sonnet-4", "sonnet", "o9-ghost"}

\* searchText.includes(modelId.toLowerCase()) with searchText the lower-cased
\* "id family name" of the model.
SearchTextIncludes(m, id) ==
    \/ id = m.id
    \/ id = m.family
    \/ (m = ModelBeta /\ id \in {"sonnet", "claude"})
    \/ (m = ModelAlpha /\ id \in {"gpt"})

Thrown(msg) == [threw |-> TRUE, v |-> msg]
Returned(v) == [threw |-> FALSE, v |-> v]

NamesJoined(models) == [i \in 1..Len(models) |-> models[i].name]

\* models.find(...): the first exact match of the id, else the first model whose
\* search text includes it.
SelectModelById(models, id) ==
    LET exact == {i \in 1..Len(models) : models[i].id = id}
        fuzzy == {i \in 1..Len(models) : SearchTextIncludes(models[i], id)}
    IN  IF exact # {} THEN Returned(models[Min(exact)])
        ELSE IF fuzzy # {} THEN Returned(models[Min(fuzzy)])
        ELSE Thrown(<<"Model ", id, " not found. Available: ">> \o NamesJoined(models))

\* The index of the first preferredModelHints entry found in the model's
\* search text.
HintRank(m) == IF m = ModelBeta THEN 0 ELSE 3

\* sorted[0] of pickPreferredModel: the model of the lowest hint rank.
PickPreferredModel(models) ==
    LET best == {i \in 1..Len(models) :
                    \A j \in 1..Len(models) : HintRank(models[i]) <= HintRank(models[j])}
    IN  models[Min(best)]

\* selectModel with prism.copilotModelId empty and prism.copilotModelFamily "auto".
SelectModel(models) ==
    IF Len(models) = 0
    THEN Thrown(<<"GitHub Copilot chat models are unavailable.">>)
    ELSE Returned(PickPreferredModel(models))

AskSelectModel(models, id) ==
    IF id # NoModel THEN SelectModelById(models, id) ELSE SelectModel(models)

----------------------------------------------------------------------------
(* ReviewEngine *)

ReviewModes == {"security", "performance", "clean-code", "architecture",
                "test-coverage", "general"}

maxContentLength == 4000

\* buildPrompt: the mode's instructions, the chunk's header and its content,
\* cut to maxContentLength.
BuildPrompt(m, c) ==
    [instructions |-> m,
     filePath     |-> c.filePath,
     type         |-> c.type,
     startLine    |-> c.startLine,
     endLine      |-> c.endLine,
     content      |-> IF Len(c.content) > maxContentLength
                      THEN SubSeq(c.content, 1, maxContentLength) \o <<LF, "... [truncated]">>
                      ELSE c.content]

ChunkId(c) == <<c.filePath, c.startLine, c.endLine>>

\* getModelName(): CopilotService.getLastUsedModelName() ?? 'unknown'
GetLastUsedModelName(active) == IF active = NoModel THEN "unknown" ELSE active

ReviewResult(c, m, suggestions, summary, riskLevel, modelUsed) ==
    [chunkId     |-> ChunkId(c),
     filePath    |-> c.filePath,
     mode        |-> m,
     suggestions |-> suggestions,
     summary     |-> summary,
     riskLevel   |-> riskLevel,
     modelUsed   |-> modelUsed]

\* The catch block of the backend call if its summary left the error's
\* message out.
ReviewUnavailableSilent(c, m, msg, active) ==
    ReviewResult(c, m, JArr(<<>>), JStr(<<"Copilot unavailable: ">>),
                 JStr(<<"low">>), GetLastUsedModelName(active))

\* The catch block of the backend call.
ReviewUnavailable(c, m, msg, active) ==
    ReviewResult(c, m, JArr(<<>>), JStr(<<"Copilot unavailable: ">> \o msg),
                 JStr(<<"low">>), GetLastUsedModelName(active))

\* The catch block of the decoding: the raw text as a single suggestion.
ReviewFallback(c, m, raw, active) ==
    ReviewResult(c, m,
                 JArr(<<JObj(<<<<"line">>, <<"severity">>, <<"message">>>>,
                             <<JNum(c.startLine), JStr(<<"info">>), JStr(raw)>>)>>),
                 JStr(<<"Review completed (unstructured response)">>),
                 JStr(<<"low">>), GetLastUsedModelName(active))

\* The return statement of the decoding try block: reading a property of
\* null throws.
ReviewFromParsed(c, m, parsed, active) ==
    IF PropThrows(parsed) THEN Thrown(<<"TypeError">>)
    ELSE Returned(ReviewResult(c, m,
             Coalesce(GetProp(parsed, <<"suggestions">>), JArr(<<>>)),
             Coalesce(GetProp(parsed, <<"summary">>), JStr(<<>>)),
             Coalesce(GetProp(parsed, <<"riskLevel">>), JStr(<<"low">>)),
             GetLastUsedModelName(active)))

\* The body of the decoding try block: JSON.parse throws on text that is not
\* JSON.
ReviewTryDecode(c, m, raw, active) ==
    The({IF p.ok THEN ReviewFromParsed(c, m, p.v, active) ELSE Thrown(<<"SyntaxError">>) :
            p \in {JSONParse(StripFences(raw))}})

\* The decoding without its catch block.
ReviewDecodeUncaught(c, m, raw, active) == ReviewTryDecode(c, m, raw, active)

\* The decoding try/catch of reviewChunk.
ReviewDecode(c, m, raw, active) ==
    The({IF body.threw THEN Returned(ReviewFallback(c, m, raw, active)) ELSE body :
            body \in {ReviewTryDecode(c, m, raw, active)}})

----------------------------------------------------------------------------
(* Inputs of the review orchestrator *)

NumToken(n) == CHOOSE c \in NumTokens : NumValue(c) = n

\* The JSON text of a value, without white space.
RECURSIVE Render(_)
RECURSIVE RenderElements(_, _)
RECURSIVE RenderMembers(_, _, _)

RenderElements(a, i) ==
    IF i > Len(a) THEN <<>>
    ELSE (IF i > 1 THEN <<",">> ELSE <<>>) \o Render(a[i]) \o RenderElements(a, i + 1)

RenderMembers(k, a, i) ==
    IF i > Len(a) THEN <<>>
    ELSE (IF i > 1 THEN <<",">> ELSE <<>>) \o <<QUOTE>> \o k[i] \o <<QUOTE, ":">>
         \o Render(a[i]) \o RenderMembers(k, a, i + 1)

Render(v) ==
    CASE v.t = "number"  -> <<NumToken(v.n)>>
      [] v.t = "null"    -> <<"null">>
      [] v.t = "boolean" -> IF v.b THEN <<"true">> ELSE <<"false">>
      [] v.t = "string"  -> <<QUOTE>> \o v.s \o <<QUOTE>>
      [] v.t = "array"   -> <<"[">> \o RenderElements(v.a, 1) \o <<"]">>
      [] v.t = "object"  -> <<"{">> \o RenderMembers(v.k, v.a, 1) \o <<"}">>

Suggestion(line, severity, message) ==
    JObj(<<<<"line">>, <<"severity">>, <<"message">>>>,
         <<JNum(line), JStr(<<severity>>), JStr(message)>>)

ReviewObject(summary, riskLevel, suggestions) ==
    JObj(<<<<"summary">>, <<"riskLevel">>, <<"suggestions">>>>,
         <<summary, riskLevel, suggestions>>)

\* Summaries a backend writes: plain prose, the empty string, prose quoting
\* code between fences on one line, and prose whose quoted code is set off by
\* U+2028 line separators.
Summaries ==
    {<<"Adds a login check">>,
     <<>>,
     <<"Use", SP, FENCE, "await", FENCE, SP, "here">>,
     <<"Wrap the call:", LS, FENCE, "js", LS, "await", LS, FENCE>>}

RiskLevels == {"low", "medium", "high"}

SuggestionLists ==
    {<<>>,
     <<Suggestion(50, "warning", <<"Validate the token">>)>>,
     <<Suggestion(72, "error", <<"Hash the password">>),
       Suggestion(50, "info", <<"Rename", SP, "x">>)>>}

\* The JSON objects of the schema buildPrompt asks for.
SchemaObjects ==
    {ReviewObject(JStr(s), JStr(<<r>>), JArr(g)) :
        s \in Summaries, r \in RiskLevels, g \in SuggestionLists}

SampleObject ==
    ReviewObject(JStr(<<"Adds a login check">>), JStr(<<"high">>),
                 JArr(<<Suggestion(50, "warning", <<"Validate the token">>)>>))

\* Texts that are JSON but no object of the schema.
OffSchemaValues ==
    {JNum(50), JStr(<<"looks fine">>), JArr(<<>>), JArr(<<JNum(50)>>), JNull,
     JBool(TRUE), JObj(<<>>, <<>>),
     JObj(<<<<"summary">>>>, <<JStr(<<"Adds a login check">>)>>),
     ReviewObject(JNull, JNull, JNull),
     ReviewObject(JNum(50), JStr(<<"critical">>), JStr(<<"none">>)),
     ReviewObject(JStr(<<"ok">>), JStr(<<"low">>),
                  JArr(<<Suggestion(50, "fatal", <<"x">>)>>))}

\* Texts that are not JSON.
NonJsonTexts ==
    {<<"not", SP, "json", SP, "at", SP, "all">>,
     <<>>,
     <<"{", QUOTE, "summary", QUOTE, ":">>,
     <<"Here is the review:", LF>> \o Render(SampleObject),
     <<FENCE, LF, "no findings", LF, FENCE>>,
     Render(SampleObject) \o <<LS>> \o Render(SampleObject)}

\* The same object inside a code fence, with and without the language tag,
\* after a line of prose, and with white space around it.
WrappedTexts ==
    {<<FENCE, "json", LF>> \o Render(SampleObject) \o <<LF, FENCE>>,
     <<FENCE, LF>> \o Render(SampleObject) \o <<LF, FENCE, LF>>,
     <<"Here is the review:", LF, FENCE, "json", LF>> \o Render(SampleObject) \o <<LF, FENCE>>,
     <<LF, SP>> \o Render(SampleObject) \o <<SP, LF>>,
     <<"{", LF, SP, QUOTE, "summary", QUOTE, ":", SP, QUOTE, "ok", QUOTE, LF, "}">>}

\* What the backend's stream can add up to.
ResponseTexts ==
    {Render(v) : v \in SchemaObjects} \cup {Render(v) : v \in OffSchemaValues}
        \cup NonJsonTexts \cup WrappedTexts

\* The messages of the errors the backend call can fail with.
ErrorMessages == {<<"Request failed: quota exceeded">>, <<"Response got filtered">>}

ChunkLogin ==
    [filePath  |-> <<"src", "/", "auth", "/", "login", ".", "ts">>,
     type      |-> "addition",
     startLine |-> 12,
     endLine   |-> 13,
     content   |-> <<"+", "const", SP, "token", LF, "+", "return", SP, "token">>,
     metadata  |-> [containsFunction |-> FALSE, containsImportChange |-> FALSE,
                    containsAuthLogic |-> TRUE]]

ChunkReadme ==
    [filePath  |-> <<"README", ".", "md">>,
     type      |-> "modification",
     startLine |-> 1,
     endLine   |-> 2,
     content   |-> <<"-", "old", LF, "+", "new">>,
     metadata  |-> [containsFunction |-> FALSE, containsImportChange |-> FALSE,
                    containsAuthLogic |-> FALSE]]

ReviewChunks == {ChunkLogin, ChunkReadme}

NoResult == [none |-> TRUE]

\* Two callers of the one ReviewEngine, and a caller that has no call in
\* flight.
Callers == {1, 2}
IdleCall ==
    [pc |-> "idle", chunk |-> ChunkReadme, mode |-> "general", modelId |-> NoModel,
     backend |-> "none", result |-> NoResult]

\* No command of the extension is running, and getDiff has not been called.
NoSession ==
    [kind |-> "none", pc |-> "idle", mode |-> "general", files |-> <<>>, fullDiff |-> <<>>,
     selectedModels |-> <<>>, fetched |-> 0, allChunks |-> <<>>, model |-> 0,
     reviewed |-> 0, results |-> <<>>, modelResults |-> <<>>, asks |-> 0, panel |-> "none",
     outcome |-> "none", shown |-> <<>>]
NoStatus  == [merged |-> FALSE, mergeable |-> FALSE, allowedMethods |-> <<>>]
NoMerge   ==
    [pc |-> "idle", status |-> NoStatus, selected |-> "<unasked>",
     commitTitle |-> "<unasked>", confirm |-> "<unasked>", mergeCalls |-> <<>>,
     outcome |-> "none"]
NoFetch   == [fullDiff |-> <<>>, filePath |-> <<>>, fileDiff |-> <<>>]

----------------------------------------------------------------------------
(* reviewChunk, step by step.  The steps are the awaits of CopilotService.ask *)

ReviewIdle ==
    /\ pc = "idle"
    /\ chunk = ChunkReadme
    /\ mode = "general"
    /\ modelId = NoModel
    /\ rawResponse = <<>>
    /\ outcome = "none"
    /\ result = NoResult
    /\ activeModelName = NoModel
    /\ askCount = 0
    /\ backend = "none"
    /\ prNumber = 0
    /\ chunks = <<>>
    /\ changedFiles = <<>>
    /\ modelIds = <<>>
    /\ results = <<>>
    /\ fates = <<>>
    /\ diff = <<>>
    /\ reports = <<>>
    /\ calls = [k \in Callers |-> IdleCall]
    /\ session = NoSession
    /\ merge = NoMerge
    /\ fetch = NoFetch

\* reviewChunk(c, m, id) builds the prompt and calls ask(prompt, id), which
\* first awaits the list of models.
ReviewChunkCall(c, m, id) ==
    /\ pc = "idle"
    /\ pc' = "select"
    /\ chunk' = c
    /\ mode' = m
    /\ modelId' = id
    /\ rawResponse' = <<>>
    /\ outcome' = "none"
    /\ result' = NoResult
    /\ askCount' = 1
    /\ backend' = "none"
    /\ UNCHANGED <<activeModelName, deepVars, riskVars, overlapVars, commandVars>>

\* The model is found: ask records its name and sends the prompt.
AskSelected(models) ==
    /\ pc = "select"
    /\ ~AskSelectModel(models, modelId).threw
    /\ activeModelName' = AskSelectModel(models, modelId).v.name
    /\ pc' = "request"
    /\ UNCHANGED <<chunk, mode, modelId, rawResponse, outcome, result, askCount, backend>>
    /\ UNCHANGED <<deepVars, riskVars, overlapVars, commandVars>>

\* ask threw (no model selected, or the request failed) and reviewChunk's
\* catch block returns.
ReviewCatch(msg) ==
    /\ result' = ReviewUnavailable(chunk, mode, msg, activeModelName)
    /\ outcome' = "returned"
    /\ backend' = "rejected"
    /\ pc' = "idle"
    /\ UNCHANGED <<chunk, mode, modelId, rawResponse, activeModelName, askCount>>
    /\ UNCHANGED <<deepVars, riskVars, overlapVars, commandVars>>

AskSelectFails(models) ==
    /\ pc = "select"
    /\ AskSelectModel(models, modelId).threw
    /\ ReviewCatch(AskSelectModel(models, modelId).v)

AskRequestFails(msg) ==
    /\ pc = "request"
    /\ ReviewCatch(msg)

\* The stream ends: ask returns the trimmed text and reviewChunk decodes it.
AskResolves(text) ==
    /\ pc = "request"
    /\ \E raw \in {Trim(text)} :
         \E done \in {ReviewDecode(chunk, mode, raw, activeModelName)} :
            /\ rawResponse' = raw
            /\ outcome' = IF done.threw THEN "threw" ELSE "returned"
            /\ result' = IF done.threw THEN NoResult ELSE done.v
    /\ backend' = "resolved"
    /\ pc' = "idle"
    /\ UNCHANGED <<chunk, mode, modelId, activeModelName, askCount>>
    /\ UNCHANGED <<deepVars, riskVars, overlapVars, commandVars>>

ReviewNext ==
    \/ \E c \in ReviewChunks, m \in ReviewModes, id \in RequestIds \cup {NoModel} :
          ReviewChunkCall(c, m, id)
    \/ \E models \in ModelLists : AskSelected(models)
    \/ \E models \in ModelLists : AskSelectFails(models)
    \/ \E msg \in ErrorMessages : AskRequestFails(msg)
    \/ \E text \in ResponseTexts : AskResolves(text)

SpecReview == ReviewIdle /\ [][ReviewNext]_vars

----------------------------------------------------------------------------
(* Helpers shared by the deep-analysis engine and the risk scorer *)

\* The elements of a set of positions in increasing order.
Ascending(S) ==
    [k \in 1..Cardinality(S) |-> CHOOSE i \in S : Cardinality({j \in S : j < i}) = k - 1]

\* The distinct file paths of a chunk list in the order of their first
\* occurrence: the keys of a Map filled in one pass.
FilePaths(cs) ==
    LET first == {i \in 1..Len(cs) : \A j \in 1..(i - 1) : cs[j].filePath # cs[i].filePath}
        order == Ascending(first)
    IN  [k \in 1..Len(order) |-> cs[order[k]].filePath]

\* The chunks of one file, in input order.
ChunksOf(cs, path) ==
    LET mine == Ascending({i \in 1..Len(cs) : cs[i].filePath = path})
    IN  [k \in 1..Len(mine) |-> cs[mine[k]]]

RECURSIVE SumSeq(_)
SumSeq(q) == IF q = <<>> THEN 0 ELSE Head(q) + SumSeq(Tail(q))

\* content.split('\n').length
LineCount(content) == Cardinality({i \in 1..Len(content) : content[i] = LF}) + 1

\* x is put behind every element whose key is not smaller than its own.
InsertDesc(sorted, x) ==
    LET smaller == {i \in 1..Len(sorted) : sorted[i].key < x.key}
    IN  IF smaller = {} THEN Append(sorted, x)
        ELSE SubSeq(sorted, 1, Min(smaller) - 1) \o <<x>>
                 \o SubSeq(sorted, Min(smaller), Len(sorted))

\* Array.prototype.sort((a, b) => b.key - a.key): descending and stable.
RECURSIVE SortDesc(_, _)
SortDesc(q, n) ==
    IF n = 0 THEN <<>>
    ELSE The({InsertDesc(sorted, q[n]) : sorted \in {SortDesc(q, n - 1)}})

----------------------------------------------------------------------------
(* DeepAnalysisEngine *)

\* /\.(test|spec)\.(ts|tsx|js|jsx)$/.test(path) || /\/tests?\//.test(path)
IsTestPath(path) ==
    \/ /\ Len(path) >= 4
       /\ path[Len(path) - 3] = "."
       /\ path[Len(path) - 2] \in {"test", "spec"}
       /\ path[Len(path) - 1] = "."
       /\ path[Len(path)] \in {"ts", "tsx", "js", "jsx"}
    \/ \E i \in 1..(Len(path) - 2) :
          path[i] = "/" /\ path[i + 1] \in {"test", "tests"} /\ path[i + 2] = "/"

ComputeMetrics(cs, files) ==
    LET paths == FilePaths(cs)
        sizes == [k \in 1..Len(paths) |->
                     [key  |-> SumSeq([i \in 1..Len(ChunksOf(cs, paths[k])) |->
                                          LineCount(ChunksOf(cs, paths[k])[i].content)]),
                      path |-> paths[k]]]
        total == SumSeq([k \in 1..Len(sizes) |-> sizes[k].key])
        byHot == SortDesc(sizes, Len(sizes))
        tests == Cardinality({i \in 1..Len(files) : IsTestPath(files[i].filePath)})
        other == Len(files) - tests
    IN  [totalFilesChanged    |-> Len(files),
         totalAdditions       |-> SumSeq([i \in 1..Len(files) |-> files[i].additions]),
         totalDeletions       |-> SumSeq([i \in 1..Len(files) |-> files[i].deletions]),
         avgComplexityPerFile |-> IF Len(sizes) > 0
                                  THEN (2 * total + Len(sizes)) \div (2 * Len(sizes))
                                  ELSE 0,
         hotspotFiles         |-> [k \in 1..Min({5, Len(byHot)}) |-> byHot[k].path],
         testCoverage         |-> IF tests = 0 THEN "none"
                                  ELSE IF other = 0 \/ 5 * tests >= 4 * other THEN "excellent"
                                  ELSE IF 2 * tests >= other THEN "good"
                                  ELSE "partial"]

\* The prompt of the deep analysis: the mode, the metrics and the chunks.
BuildDeepAnalysisPrompt(cs, metrics, m) ==
    [focus |-> m, metrics |-> metrics, changes |-> cs]

\* ToNumber of a string: a number literal, the empty string, or not a number.
StringToNumber(str) ==
    IF Trim(str) = <<>> THEN JNum(0)
    ELSE IF Len(Trim(str)) = 1 /\ Trim(str)[1] \in NumTokens THEN JNum(NumValue(Trim(str)[1]))
    ELSE JNaN

\* ToNumber, the coercion Math.max and Math.min apply to their arguments.
RECURSIVE ToNumber(_)
ToNumber(v) ==
    CASE v.t = "number"    -> v
      [] v.t = "nan"       -> JNaN
      [] v.t = "boolean"   -> IF v.b THEN JNum(1) ELSE JNum(0)
      [] v.t = "null"      -> JNum(0)
      [] v.t = "undefined" -> JNaN
      [] v.t = "string"    -> StringToNumber(v.s)
      [] v.t = "object"    -> JNaN
      [] v.t = "array"     ->
            IF Len(v.a) = 0 THEN JNum(0)
            ELSE IF Len(v.a) > 1 THEN JNaN
            ELSE IF Nullish(v.a[1]) THEN JNum(0)
            ELSE IF v.a[1].t \in {"boolean", "object"} THEN JNaN
            ELSE ToNumber(v.a[1])

\* Math.min(100, Math.max(0, v ?? 50)); NaN goes through both.
ClampScore(v) ==
    The({IF x.t = "nan" THEN JNaN ELSE JNum(Min({100, Max({0, x.n})})) :
            x \in {ToNumber(Coalesce(v, JNum(50)))}})

UpperToken(c) ==
    CASE c = "a" -> "A"
      [] c = "b" -> "B"
      [] c = "c" -> "C"
      [] c = "d" -> "D"
      [] c = "f" -> "F"
      [] c = "z" -> "Z"
      [] OTHER   -> c

ToUpperCase(str) == [i \in 1..Len(str) |-> UpperToken(str[i])]

ValidGrades == {<<"A">>, <<"B">>, <<"C">>, <<"D">>, <<"F">>}

\* validateGrade: only a string has toUpperCase.
ValidateGrade(grade) ==
    IF Nullish(grade) THEN Returned(<<"C">>)
    ELSE IF grade.t # "string" THEN Thrown(<<"TypeError">>)
    ELSE IF ToUpperCase(grade.s) \in ValidGrades THEN Returned(ToUpperCase(grade.s))
    ELSE Returned(<<"C">>)

InDepthAnalysis(pr, summary, score, grade, categories, recommendations, metrics, modelUsed) ==
    [prNumber        |-> pr,
     overallSummary  |-> summary,
     complexityScore |-> score,
     qualityGrade    |-> grade,
     categories      |-> categories,
     recommendations |-> recommendations,
     metrics         |-> metrics,
     modelUsed       |-> modelUsed]

\* A fallback report that keeps the neutral score of the decoding fallback and
\* leaves the error out of the summary.
FallbackAnalysisNeutral(pr, metrics, error) ==
    InDepthAnalysis(pr, JStr(<<"Unable to complete deep analysis">>),
                    JNum(50), <<"C">>, JArr(<<>>), JArr(<<>>), metrics, "unknown")

FallbackAnalysis(pr, metrics, error) ==
    InDepthAnalysis(pr, JStr(<<"Unable to complete deep analysis: ">> \o error),
                    JNum(0), <<"C">>, JArr(<<>>), JArr(<<>>), metrics, "unknown")

\* The callback of categories.map in analyze.
MapCategory(c) ==
    JObj(<<<<"name">>, <<"score">>, <<"findings">>, <<"severity">>>>,
         <<GetProp(c, <<"name">>),
           ClampScore(GetProp(c, <<"score">>)),
           Coalesce(GetProp(c, <<"findings">>), JArr(<<>>)),
           Coalesce(GetProp(c, <<"severity">>), JStr(<<"acceptable">>))>>)

\* The callback of recommendations.map in analyze.
MapRecommendation(r) ==
    JObj(<<<<"priority">>, <<"title">>, <<"description">>, <<"filePath">>, <<"lineRange">>>>,
         <<Coalesce(GetProp(r, <<"priority">>), JStr(<<"medium">>)),
           Coalesce(GetProp(r, <<"title">>), JStr(<<"Recommendation">>)),
           Coalesce(GetProp(r, <<"description">>), JStr(<<>>)),
           GetProp(r, <<"filePath">>),
           GetProp(r, <<"lineRange">>)>>)

\* (list ?? []).map(callback) throws when list is no array or an element is
\* null.
MapThrows(list) ==
    /\ ~Nullish(list)
    /\ \/ list.t # "array"
       \/ \E i \in 1..Len(list.a) : PropThrows(list.a[i])

\* The return statement of analyze's decoding try block.
AnalyzeFromParsed(pr, metrics, parsed, modelName) ==
    IF PropThrows(parsed) THEN Thrown(<<"TypeError">>)
    ELSE LET grade == ValidateGrade(GetProp(parsed, <<"qualityGrade">>))
             cats  == Coalesce(GetProp(parsed, <<"categories">>), JArr(<<>>))
             recs  == Coalesce(GetProp(parsed, <<"recommendations">>), JArr(<<>>))
         IN  IF grade.threw \/ MapThrows(cats) \/ MapThrows(recs)
             THEN Thrown(<<"TypeError">>)
             ELSE Returned(InDepthAnalysis(pr,
                      Coalesce(GetProp(parsed, <<"overallSummary">>),
                               JStr(<<"Analysis completed.">>)),
                      ClampScore(GetProp(parsed, <<"complexityScore">>)),
                      grade.v,
                      JArr([i \in 1..Len(cats.a) |-> MapCategory(cats.a[i])]),
                      JArr([i \in 1..Len(recs.a) |-> MapRecommendation(recs.a[i])]),
                      metrics, modelName))

AnalyzeTryDecode(pr, metrics, raw, modelName) ==
    The({IF p.ok THEN AnalyzeFromParsed(pr, metrics, p.v, modelName)
                 ELSE Thrown(<<"SyntaxError">>) :
            p \in {JSONParse(StripFences(raw))}})

\* The catch block of analyze's decoding.
AnalyzeDegraded(pr, metrics, raw, modelName) ==
    InDepthAnalysis(pr, JStr(SubSeq(raw, 1, Min({500, Len(raw)}))),
                    JNum(50), <<"C">>, JArr(<<>>), JArr(<<>>), metrics, modelName)

\* The decoding try/catch of analyze.
AnalyzeDecode(pr, metrics, raw, modelName) ==
    The({IF body.threw THEN AnalyzeDegraded(pr, metrics, raw, modelName) ELSE body.v :
            body \in {AnalyzeTryDecode(pr, metrics, raw, modelName)}})

\* The object compareWithModels pushes on a decoded response: the lists are
\* taken as the backend gave them.
CompareFromParsed(pr, metrics, parsed, id) ==
    IF PropThrows(parsed) THEN Thrown(<<"TypeError">>)
    ELSE LET grade == ValidateGrade(GetProp(parsed, <<"qualityGrade">>))
         IN  IF grade.threw THEN Thrown(<<"TypeError">>)
             ELSE Returned(InDepthAnalysis(pr,
                      Coalesce(GetProp(parsed, <<"overallSummary">>),
                               JStr(<<"Analysis completed.">>)),
                      ClampScore(GetProp(parsed, <<"complexityScore">>)),
                      grade.v,
                      Coalesce(GetProp(parsed, <<"categories">>), JArr(<<>>)),
                      Coalesce(GetProp(parsed, <<"recommendations">>), JArr(<<>>)),
                      metrics, id))

CompareTryDecode(pr, metrics, raw, id) ==
    The({IF p.ok THEN CompareFromParsed(pr, metrics, p.v, id)
                 ELSE Thrown(<<"SyntaxError">>) :
            p \in {JSONParse(StripFences(raw))}})

\* The catch block of one round of compareWithModels.
CompareFailed(pr, metrics, id) ==
    FallbackAnalysis(pr, metrics, <<"Model ", id, " failed">>)

\* What one round of compareWithModels pushes when its backend call resolves.
CompareDecode(pr, metrics, raw, id) ==
    The({IF body.threw THEN CompareFailed(pr, metrics, id) ELSE body.v :
            body \in {CompareTryDecode(pr, metrics, raw, id)}})

----------------------------------------------------------------------------
(* DiffEngine *)

DIFFGIT == "diff --git "    \* the text that starts a file header, with its trailing space
HUNK    == "@@"

\* Tokens that are single characters outside [A-Za-z0-9_], or made of them.
NonWordTokens ==
    {SP, LF, LS, FENCE, QUOTE, HUNK, "+", "-", "/", ".", ",", ":", ";", "=", "=>",
     "(", ")", "{", "}", "[", "]"}

\* The token begins, or ends, with a character of [A-Za-z0-9_]: what \b of a
\* regular expression looks at.
StartsWithWordChar(c) == c \notin NonWordTokens /\ c # "-5"
EndsWithWordChar(c) == c \notin NonWordTokens /\ c # DIFFGIT

\* The token ends with the letter b.
EndsWithB(c) == c \in {"b", "lib", "web", "db"}

\* \b before position i and after position i of text t.
BoundaryBefore(t, i) ==
    StartsWithWordChar(t[i]) # (i > 1 /\ EndsWithWordChar(t[i - 1]))
BoundaryAfter(t, i) ==
    EndsWithWordChar(t[i]) # (i < Len(t) /\ StartsWithWordChar(t[i + 1]))

\* toLowerCase of a word, as far as the /i patterns of the code tell words
\* apart.
Lower(c) ==
    CASE c = "Password" -> "password"
      [] c = "PASSWORD" -> "password"
      [] c = "Token"    -> "token"
      [] c = "Auth"     -> "auth"
      [] c = "AUTH"     -> "auth"
      [] c = "Login"    -> "login"
      [] c = "OAuth"    -> "oauth"
      [] c = "Schema"   -> "schema"
      [] c = "Gemfile"  -> "gemfile"
      [] OTHER          -> c

\* The positions of the line feeds of t, in ascending order.
LineFeeds(t) ==
    LET IsLineFeed(i) == t[i] = LF
    IN  SelectSeq([i \in 1..Len(t) |-> i], IsLineFeed)

\* text.split('\n')
SplitLines(t) ==
    The({[k \in 1..(Len(cuts) + 1) |->
             SubSeq(t, IF k = 1 THEN 1 ELSE cuts[k - 1] + 1,
                       IF k = Len(cuts) + 1 THEN Len(t) ELSE cuts[k] - 1)] :
            cuts \in {LineFeeds(t)}})

\* lines.join('\n')
RECURSIVE JoinLines(_)
JoinLines(lines) ==
    IF Len(lines) = 0 THEN <<>>
    ELSE IF Len(lines) = 1 THEN lines[1]
    ELSE lines[1] \o <<LF>> \o JoinLines(Tail(lines))

\* The positions where /^diff --git /m matches.
HeaderStarts(t) ==
    {i \in 1..Len(t) : t[i] = DIFFGIT /\ (i = 1 \/ IsLineTerminator(t[i - 1]))}

\* diff.split(/^diff --git /m).filter(Boolean): the texts between the file
\* headers, the empty ones dropped.
RECURSIVE SplitBlocks(_)
SplitBlocks(t) ==
    The({IF at = {} THEN (IF t = <<>> THEN <<>> ELSE <<t>>)
         ELSE (IF Min(at) = 1 THEN <<>> ELSE <<SubSeq(t, 1, Min(at) - 1)>>)
                  \o SplitBlocks(SubSeq(t, Min(at) + 1, Len(t))) :
            at \in {HeaderStarts(t)}})

\* lines[0].match(/b\/(.+)$/): the text after the first "b/" that is followed,
\* up to the end of the line, by at least one character and no line
\* terminator; the empty text if there is none.
DestinationPath(line) ==
    LET at == {i \in 1..(Len(line) - 2) :
                  /\ EndsWithB(line[i])
                  /\ line[i + 1] = "/"
                  /\ \A j \in (i + 2)..Len(line) : ~IsLineTerminator(line[j])}
    IN  IF at = {} THEN <<>> ELSE Trim(SubSeq(line, Min(at) + 2, Len(line)))

HasDestinationPath(line) ==
    \E i \in 1..(Len(line) - 2) :
        /\ EndsWithB(line[i])
        /\ line[i + 1] = "/"
        /\ \A j \in (i + 2)..Len(line) : ~IsLineTerminator(line[j])

IsDigits(c) == c \in NumTokens /\ c # "-5"

\* The tokens from position i on are \d+(?:,\d+)?: the position after them,
\* 0 if they are not.
AfterRange(line, i) ==
    IF i > Len(line) \/ ~IsDigits(line[i]) THEN 0
    ELSE IF i + 2 <= Len(line) /\ line[i + 1] = "," /\ IsDigits(line[i + 2]) THEN i + 3
    ELSE i + 1

\* line.match(/^@@ -(\d+)(?:,\d+)? \+(\d+)(?:,(\d+))? @@/): the new-file start
\* line parseInt reads from the header, -1 if the line is no hunk header.
HunkStart(line) ==
    IF Len(line) >= 4 /\ line[1] = HUNK /\ line[2] = SP /\ line[3] = "-"
    THEN LET p == AfterRange(line, 4)
             q == IF p > 0 /\ p + 1 <= Len(line) /\ line[p] = SP /\ line[p + 1] = "+"
                  THEN AfterRange(line, p + 2) ELSE 0
         IN  IF q > 0 /\ q + 1 <= Len(line) /\ line[q] = SP /\ line[q + 1] = HUNK
             THEN NumValue(line[p + 2])
             ELSE -1
    ELSE -1

StartsWith(line, c) == Len(line) >= 1 /\ line[1] = c
StartsWith3(line, c) == Len(line) >= 3 /\ line[1] = c /\ line[2] = c /\ line[3] = c

\* /\b(function|def |func |=>|async |class )\b/.test(content)
ContainsFunction(t) ==
    \E i \in 1..Len(t) :
        \/ t[i] = "function" /\ BoundaryBefore(t, i) /\ BoundaryAfter(t, i)
        \/ /\ t[i] \in {"def", "func", "async", "class"}
           /\ BoundaryBefore(t, i)
           /\ i + 2 <= Len(t)
           /\ t[i + 1] = SP
           /\ StartsWithWordChar(t[i + 2])
        \/ /\ t[i] = "=>"
           /\ i > 1 /\ EndsWithWordChar(t[i - 1])
           /\ i < Len(t) /\ StartsWithWordChar(t[i + 1])

\* /^[+-]\s*(import|require|from)\b/.test(content)
ContainsImportChange(t) ==
    /\ Len(t) >= 2
    /\ t[1] \in {"+", "-"}
    /\ LET j == WsRunEnd(t, 2) + 1
       IN  /\ j <= Len(t)
           /\ t[j] \in {"import", "require", "from"}
           /\ BoundaryAfter(t, j)

AuthLogicWords ==
    {"auth", "token", "password", "credential", "secret", "jwt", "oauth", "session",
     "login", "logout"}

\* /\b(auth|token|...|login|logout)\b/i.test(content)
ContainsAuthLogic(t) ==
    \E i \in 1..Len(t) :
        Lower(t[i]) \in AuthLogicWords /\ BoundaryBefore(t, i) /\ BoundaryAfter(t, i)

\* The chunk pushed if the end line were the start line plus the number of
\* lines.
HunkChunkOffByOne(path, start, lines, hasAdditions, hasDeletions) ==
    The({[filePath  |-> path,
          type      |-> IF hasAdditions /\ hasDeletions THEN "modification"
                        ELSE IF hasAdditions THEN "addition"
                        ELSE "deletion",
          startLine |-> start,
          endLine   |-> start + Len(lines),
          content   |-> content,
          metadata  |-> [containsFunction     |-> ContainsFunction(content),
                         containsImportChange |-> ContainsImportChange(content),
                         containsAuthLogic    |-> ContainsAuthLogic(content)]] :
            content \in {JoinLines(lines)}})

\* The chunk flushHunk pushes for the lines of a hunk.
HunkChunk(path, start, lines, hasAdditions, hasDeletions) ==
    The({[filePath  |-> path,
          type      |-> IF hasAdditions /\ hasDeletions THEN "modification"
                        ELSE IF hasAdditions THEN "addition"
                        ELSE "deletion",
          startLine |-> start,
          endLine   |-> start + Len(lines) - 1,
          content   |-> content,
          metadata  |-> [containsFunction     |-> ContainsFunction(content),
                         containsImportChange |-> ContainsImportChange(content),
                         containsAuthLogic    |-> ContainsAuthLogic(content)]] :
            content \in {JoinLines(lines)}})

\* flushHunk on the scan state st: the lines of the current hunk become a
\* chunk, unless there are none.
FlushHunk(path, st) ==
    IF Len(st.lines) = 0 THEN st
    ELSE [st EXCEPT !.out   = Append(st.out, HunkChunk(path, st.start, st.lines,
                                                       st.adds, st.dels)),
                    !.lines = <<>>,
                    !.adds  = FALSE,
                    !.dels  = FALSE]

\* The body of the loop if it did not look for the +++ and --- markers.
ScanLineCountsMarkers(path, st, line) ==
    The({IF h >= 0 THEN [FlushHunk(path, st) EXCEPT !.start = h]
         ELSE IF st.start > 0
              THEN [st EXCEPT
                      !.lines = Append(st.lines, line),
                      !.adds  = st.adds \/ StartsWith(line, "+"),
                      !.dels  = st.dels \/ StartsWith(line, "-")]
         ELSE st :
            h \in {HunkStart(line)}})

\* The body of the loop over the lines of a block.
ScanLine(path, st, line) ==
    The({IF h >= 0 THEN [FlushHunk(path, st) EXCEPT !.start = h]
         ELSE IF st.start > 0
              THEN [st EXCEPT
                      !.lines = Append(st.lines, line),
                      !.adds  = st.adds \/ (StartsWith(line, "+") /\ ~StartsWith3(line, "+")),
                      !.dels  = st.dels \/ (/\ ~(StartsWith(line, "+") /\ ~StartsWith3(line, "+"))
                                            /\ StartsWith(line, "-")
                                            /\ ~StartsWith3(line, "-"))]
         ELSE st :
            h \in {HunkStart(line)}})

\* The loop over lines[lo..hi], started in scan state st: the first half of
\* the lines, then the second half from the state the first half leaves.
RECURSIVE ScanLines(_, _, _, _, _)
ScanLines(path, st, lines, lo, hi) ==
    IF lo > hi THEN st
    ELSE IF lo = hi THEN ScanLine(path, st, lines[lo])
    ELSE The({ScanLines(path, half, lines, ((lo + hi) \div 2) + 1, hi) :
                 half \in {ScanLines(path, st, lines, lo, (lo + hi) \div 2)}})

\* The chunks of one block.
ParseBlock(block) ==
    The({IF ~HasDestinationPath(lines[1]) THEN <<>>
         ELSE The({FlushHunk(path, st).out :
                      st \in {ScanLines(path,
                                        [lines |-> <<>>, start |-> 0, adds |-> FALSE,
                                         dels |-> FALSE, out |-> <<>>],
                                        lines, 1, Len(lines))}}) :
            lines \in {SplitLines(block)}, path \in {DestinationPath(SplitLines(block)[1])}})

RECURSIVE ParseBlocks(_, _)
ParseBlocks(blocks, i) ==
    IF i > Len(blocks) THEN <<>>
    ELSE ParseBlock(blocks[i]) \o ParseBlocks(blocks, i + 1)

\* parse if it made a chunk of every block of a text that is not empty,
\* whether or not the block has a file header and a hunk header.
ParseEveryBlock(d) ==
    IF d = <<>> THEN <<>>
    ELSE The({[k \in 1..Len(blocks) |->
                  HunkChunk(DestinationPath(SplitLines(blocks[k])[1]), 1,
                            SplitLines(blocks[k]), FALSE, FALSE)] :
                 blocks \in {SplitBlocks(d)}})

\* DiffEngine.parse
Parse(d) ==
    IF Trim(d) = <<>> THEN <<>>
    ELSE The({ParseBlocks(blocks, 1) : blocks \in {SplitBlocks(d)}})

----------------------------------------------------------------------------
(* Claims about reviewChunk *)

ReviewReturned == pc = "idle" /\ backend # "none"

NotJsonAtAll == <<"not", SP, "json", SP, "at", SP, "all">>

\* C1: whatever the chunk, the mode and the backend's behaviour (the call
\* throws, or resolves with any text), reviewChunk ends by returning a
\* ReviewResult for that chunk and mode; no exception reaches its caller.
C1_ReviewChunkNeverThrows ==
    /\ outcome # "threw"
    /\ ReviewReturned =>
          /\ outcome = "returned"
          /\ result.chunkId = ChunkId(chunk)
          /\ result.filePath = chunk.filePath
          /\ result.mode = mode
          /\ result.riskLevel.t = "string"

C1_Witness ==
    /\ ReviewReturned
    /\ backend = "resolved"
    /\ rawResponse = NotJsonAtAll
    /\ outcome = "returned"

\* The text, with a surrounding fence stripped, is no JSON object.
NotAJsonObject(raw) ==
    LET p == JSONParse(StripFences(raw))
    IN  ~p.ok \/ p.v.t # "object"

\* C2: whenever the backend's text, with a surrounding code fence stripped, is
\* not JSON or is JSON that is no object, reviewChunk returns the fallback
\* result: one info finding at the chunk's start line carrying the raw text,
\* the summary "Review completed (unstructured response)" and riskLevel low.
C2_NonObjectFallsBack ==
    (ReviewReturned /\ backend = "resolved" /\ NotAJsonObject(rawResponse)) =>
        /\ outcome = "returned"
        /\ result.suggestions =
              JArr(<<Suggestion(chunk.startLine, "info", rawResponse)>>)
        /\ result.summary = JStr(<<"Review completed (unstructured response)">>)
        /\ result.riskLevel = JStr(<<"low">>)

\* C3: when the backend's text is exactly a JSON object with a string summary,
\* a riskLevel among low, medium and high and an array of suggestions, the
\* returned summary, riskLevel and suggestions equal those of the object.
C3_SchemaObjectRoundTrip ==
    \A v \in SchemaObjects :
        (ReviewReturned /\ backend = "resolved" /\ rawResponse = Render(v)) =>
            /\ outcome = "returned"
            /\ result.summary = GetProp(v, <<"summary">>)
            /\ result.riskLevel = GetProp(v, <<"riskLevel">>)
            /\ result.suggestions = GetProp(v, <<"suggestions">>)

----------------------------------------------------------------------------
(* Inputs of the deep-analysis engine *)

MaxBackends == 2      \* the longest list of backend ids given to compareWithModels

Category(name, score) ==
    JObj(<<<<"name">>, <<"score">>, <<"findings">>, <<"severity">>>>,
         <<JStr(<<name>>), score, JArr(<<JStr(<<"finding">>)>>), JStr(<<"good">>)>>)

DeepObject(summary, score, grade, categories, recommendations) ==
    JObj(<<<<"overallSummary">>, <<"complexityScore">>, <<"qualityGrade">>,
           <<"categories">>, <<"recommendations">>>>,
         <<summary, score, grade, categories, recommendations>>)

SampleRecommendation ==
    JObj(<<<<"priority">>, <<"title">>, <<"description">>>>,
         <<JStr(<<"high">>), JStr(<<"Hash the password">>), JStr(<<"Use bcrypt">>)>>)

DeepGood ==
    DeepObject(JStr(<<"Adds a login check">>), JNum(72), JStr(<<"b">>),
               JArr(<<Category("Security", JNum(72)), Category("Testing", JNum(0))>>),
               JArr(<<SampleRecommendation>>))

\* Scores above the range, and a category without a score.
DeepTooHigh ==
    DeepObject(JStr(<<"Rewrites the session store">>), JNum(500), JStr(<<"A">>),
               JArr(<<Category("Security", JNum(500)),
                      JObj(<<<<"name">>>>, <<JStr(<<"Testing">>)>>)>>),
               JArr(<<>>))

\* Scores below the range and a grade outside A..F.
DeepTooLow ==
    DeepObject(JStr(<<"Removes dead code">>), JNum(-5), JStr(<<"z">>),
               JArr(<<Category("Performance", JNum(-5))>>), JArr(<<JObj(<<>>, <<>>)>>))

\* Scores that are no numbers.
DeepWordScores ==
    DeepObject(JStr(<<"Adds a login check">>), JStr(<<"high">>), JStr(<<"B">>),
               JArr(<<Category("Security", JStr(<<"low">>))>>), JArr(<<>>))

DeepDigitScores ==
    DeepObject(JStr(<<"Adds a login check">>), JStr(<<"500">>), JStr(<<"B">>),
               JArr(<<Category("Security", JStr(<<"72">>)), Category("Testing", JBool(TRUE))>>),
               JArr(<<>>))

DeepObjects ==
    {DeepGood, DeepTooHigh, DeepTooLow, DeepWordScores, DeepDigitScores,
     JObj(<<>>, <<>>),
     DeepObject(JNull, JNull, JNull, JNull, JNull),
     DeepObject(JStr(<<"ok">>), JNum(50), JNum(50), JArr(<<>>), JArr(<<>>)),
     DeepObject(JStr(<<"ok">>), JNum(50), JStr(<<"A">>), JStr(<<"none">>), JArr(<<>>)),
     DeepObject(JStr(<<"ok">>), JNum(50), JStr(<<"A">>), JArr(<<JNull>>), JArr(<<>>)),
     DeepObject(JStr(<<"ok">>), JNum(50), JStr(<<"A">>), JArr(<<>>), JArr(<<JNull>>)),
     DeepObject(JStr(<<"ok">>), JArr(<<JNum(500)>>), JStr(<<"d">>), JArr(<<JNum(50)>>), JArr(<<>>))}

DeepTexts ==
    {Render(v) : v \in DeepObjects}
        \cup {Render(JNum(50)), Render(JNull), Render(JArr(<<>>)), NotJsonAtAll, <<>>,
              <<FENCE, "json", LF>> \o Render(DeepGood) \o <<LF, FENCE>>,
              <<"The analysis follows.", LF>> \o Render(DeepGood)}

\* The texts the backends of a comparison answer with.
CompareTexts ==
    {Render(DeepGood), Render(DeepTooHigh), Render(DeepWordScores), NotJsonAtAll}

CompareIds == {"gpt-4o", "sonnet", "o9-ghost"}

\* The lists of at most MaxBackends backend ids.
IdLists == UNION {[1..n -> CompareIds] : n \in 0..MaxBackends}

DeepModes == {"general", "security"}

ChunkLoginTest ==
    [filePath  |-> <<"src", "/", "auth", "/", "login", ".", "test", ".", "ts">>,
     type      |-> "addition",
     startLine |-> 1,
     endLine   |-> 3,
     content   |-> <<"+", "import", SP, "x", LF, "+", "it", LF, "+", "done">>,
     metadata  |-> [containsFunction |-> FALSE, containsImportChange |-> TRUE,
                    containsAuthLogic |-> FALSE]]

ChangedFile(path, additions, deletions) ==
    [filePath |-> path, status |-> "modified", additions |-> additions, deletions |-> deletions]

\* The submissions analysed: an empty one, and one of three chunks in two
\* files with a test file among the changed files.
Submissions ==
    {[chunks |-> <<>>, changedFiles |-> <<>>],
     [chunks |-> <<ChunkLogin, ChunkLoginTest, ChunkLogin>>,
      changedFiles |-> <<ChangedFile(ChunkLogin.filePath, 4, 0),
                         ChangedFile(ChunkLoginTest.filePath, 3, 1),
                         ChangedFile(ChunkReadme.filePath, 1, 1)>>]}

PrNumbers == {7}

----------------------------------------------------------------------------
(* analyze and compareWithModels, step by step *)

DeepIdle == ReviewIdle

\* analyze(pr, cs, files, m) computes the metrics, builds the prompt and calls
\* ask(prompt).
AnalyzeCall(pr, sub, m) ==
    /\ pc = "idle"
    /\ pc' = "analyze:select"
    /\ prNumber' = pr
    /\ chunks' = sub.chunks
    /\ changedFiles' = sub.changedFiles
    /\ mode' = m
    /\ modelId' = NoModel
    /\ modelIds' = <<>>
    /\ results' = <<>>
    /\ fates' = <<>>
    /\ rawResponse' = <<>>
    /\ outcome' = "none"
    /\ result' = NoResult
    /\ askCount' = 1
    /\ backend' = "none"
    /\ UNCHANGED <<activeModelName, chunk, riskVars, overlapVars, commandVars>>

AnalyzeSelected(models) ==
    /\ pc = "analyze:select"
    /\ ~AskSelectModel(models, modelId).threw
    /\ activeModelName' = AskSelectModel(models, modelId).v.name
    /\ pc' = "analyze:request"
    /\ UNCHANGED <<modelId, rawResponse, outcome, result, askCount, backend>>
    /\ UNCHANGED <<reviewVars, deepVars, riskVars, overlapVars, commandVars>>

\* ask threw: the catch block of analyze returns the fallback report.
AnalyzeCatch(msg) ==
    /\ result' = FallbackAnalysis(prNumber, ComputeMetrics(chunks, changedFiles), msg)
    /\ fates' = <<[threw |-> TRUE, text |-> msg]>>
    /\ outcome' = "returned"
    /\ backend' = "rejected"
    /\ pc' = "idle"
    /\ UNCHANGED <<modelId, rawResponse, activeModelName, askCount>>
    /\ UNCHANGED <<reviewVars, prNumber, chunks, changedFiles, modelIds, results, riskVars, overlapVars, commandVars>>

AnalyzeSelectFails(models) ==
    /\ pc = "analyze:select"
    /\ AskSelectModel(models, modelId).threw
    /\ AnalyzeCatch(AskSelectModel(models, modelId).v)

AnalyzeRequestFails(msg) ==
    /\ pc = "analyze:request"
    /\ AnalyzeCatch(msg)

AnalyzeResolves(text) ==
    /\ pc = "analyze:request"
    /\ \E raw \in {Trim(text)} :
          /\ rawResponse' = raw
          /\ fates' = <<[threw |-> FALSE, text |-> raw]>>
          /\ result' = AnalyzeDecode(prNumber, ComputeMetrics(chunks, changedFiles), raw,
                                     GetLastUsedModelName(activeModelName))
    /\ outcome' = "returned"
    /\ backend' = "resolved"
    /\ pc' = "idle"
    /\ UNCHANGED <<modelId, activeModelName, askCount>>
    /\ UNCHANGED <<reviewVars, prNumber, chunks, changedFiles, modelIds, results, riskVars, overlapVars, commandVars>>

\* compareWithModels(pr, cs, files, m, ids): with no ids the loop body never
\* runs.
CompareCall(pr, sub, m, ids) ==
    /\ pc = "idle"
    /\ prNumber' = pr
    /\ chunks' = sub.chunks
    /\ changedFiles' = sub.changedFiles
    /\ mode' = m
    /\ modelIds' = ids
    /\ results' = <<>>
    /\ fates' = <<>>
    /\ rawResponse' = <<>>
    /\ backend' = "none"
    /\ IF ids = <<>>
       THEN /\ pc' = "idle"
            /\ modelId' = NoModel
            /\ outcome' = "returned"
            /\ result' = <<>>
            /\ askCount' = 0
       ELSE /\ pc' = "compare:select"
            /\ modelId' = ids[1]
            /\ outcome' = "none"
            /\ result' = NoResult
            /\ askCount' = 1
    /\ UNCHANGED <<activeModelName, chunk, riskVars, overlapVars, commandVars>>

CompareSelected(models) ==
    /\ pc = "compare:select"
    /\ ~AskSelectModel(models, modelId).threw
    /\ activeModelName' = AskSelectModel(models, modelId).v.name
    /\ pc' = "compare:request"
    /\ UNCHANGED <<modelId, rawResponse, outcome, result, askCount, backend>>
    /\ UNCHANGED <<reviewVars, deepVars, riskVars, overlapVars, commandVars>>

\* A loop whose try/catch is around the loop instead of inside it: the first
\* failure ends the comparison with the reports pushed so far.
ComparePushOrAbort(report, fate) ==
    /\ results' = Append(results, report)
    /\ fates' = Append(fates, fate)
    /\ IF Len(results) + 1 = Len(modelIds) \/ fate.threw
       THEN /\ pc' = "idle"
            /\ outcome' = "returned"
            /\ result' = Append(results, report)
            /\ UNCHANGED <<modelId, askCount>>
       ELSE /\ pc' = "compare:select"
            /\ modelId' = modelIds[Len(results) + 2]
            /\ askCount' = askCount + 1
            /\ UNCHANGED <<outcome, result>>
    /\ UNCHANGED <<reviewVars, prNumber, chunks, changedFiles, modelIds, riskVars, overlapVars, commandVars>>

\* A round of the loop ends by pushing report: the loop goes on with the next
\* id, or compareWithModels returns the reports.
ComparePush(report, fate) ==
    /\ results' = Append(results, report)
    /\ fates' = Append(fates, fate)
    /\ IF Len(results) + 1 = Len(modelIds)
       THEN /\ pc' = "idle"
            /\ outcome' = "returned"
            /\ result' = Append(results, report)
            /\ UNCHANGED <<modelId, askCount>>
       ELSE /\ pc' = "compare:select"
            /\ modelId' = modelIds[Len(results) + 2]
            /\ askCount' = askCount + 1
            /\ UNCHANGED <<outcome, result>>
    /\ UNCHANGED <<reviewVars, prNumber, chunks, changedFiles, modelIds, riskVars, overlapVars, commandVars>>

CompareSelectFails(models) ==
    /\ pc = "compare:select"
    /\ AskSelectModel(models, modelId).threw
    /\ backend' = "rejected"
    /\ ComparePush(CompareFailed(prNumber, ComputeMetrics(chunks, changedFiles), modelId),
                   [threw |-> TRUE, text |-> AskSelectModel(models, modelId).v])
    /\ UNCHANGED <<rawResponse, activeModelName>>

CompareRequestFails(msg) ==
    /\ pc = "compare:request"
    /\ backend' = "rejected"
    /\ ComparePush(CompareFailed(prNumber, ComputeMetrics(chunks, changedFiles), modelId),
                   [threw |-> TRUE, text |-> msg])
    /\ UNCHANGED <<rawResponse, activeModelName>>

CompareResolves(text) ==
    /\ pc = "compare:request"
    /\ backend' = "resolved"
    /\ \E raw \in {Trim(text)} :
          /\ rawResponse' = raw
          /\ ComparePush(CompareDecode(prNumber, ComputeMetrics(chunks, changedFiles),
                                       raw, modelId),
                         [threw |-> FALSE, text |-> raw])
    /\ UNCHANGED activeModelName

DeepNext ==
    \/ \E pr \in PrNumbers, sub \in Submissions, m \in DeepModes : AnalyzeCall(pr, sub, m)
    \/ \E models \in ModelLists : AnalyzeSelected(models)
    \/ \E models \in ModelLists : AnalyzeSelectFails(models)
    \/ \E msg \in ErrorMessages : AnalyzeRequestFails(msg)
    \/ \E text \in DeepTexts : AnalyzeResolves(text)
    \/ \E pr \in PrNumbers, sub \in Submissions, m \in DeepModes, ids \in IdLists :
          CompareCall(pr, sub, m, ids)
    \/ \E models \in ModelLists : CompareSelected(models)
    \/ \E models \in ModelLists : CompareSelectFails(models)
    \/ \E msg \in ErrorMessages : CompareRequestFails(msg)
    \/ \E text \in CompareTexts : CompareResolves(text)

SpecDeep == DeepIdle /\ [][DeepNext]_vars

----------------------------------------------------------------------------
(* Claims about the deep-analysis engine *)

AnalyzeReturned == pc = "idle" /\ backend # "none" /\ modelIds = <<>> /\ fates # <<>>
CompareReturned == pc = "idle" /\ outcome = "returned" /\ modelIds # <<>>

\* The reports the finished operation returned.
ReturnedReports ==
    IF AnalyzeReturned THEN <<result>>
    ELSE IF CompareReturned THEN result
    ELSE <<>>

InRange(v) == v.t = "number" /\ 0 <= v.n /\ v.n <= 100

ScoresInRange(report) ==
    /\ InRange(report.complexityScore)
    /\ report.categories.t = "array"
    /\ \A i \in 1..Len(report.categories.a) :
          InRange(GetProp(report.categories.a[i], <<"score">>))

\* C4: in every report analyze or compareWithModels returns, complexityScore
\* and every category's score are numbers between 0 and 100, whatever the
\* backend gave for them.
C4_ScoresClamped ==
    \A i \in 1..Len(ReturnedReports) : ScoresInRange(ReturnedReports[i])

IsDegraded(report) ==
    /\ report.qualityGrade = <<"C">>
    /\ report.complexityScore = JNum(0)
    /\ report.categories = JArr(<<>>)
    /\ report.recommendations = JArr(<<>>)

\* What compareWithModels returns for one backend that answers raw when it is
\* the only backend asked.
AloneReport(id, raw) ==
    CompareDecode(prNumber, ComputeMetrics(chunks, changedFiles), raw, id)

\* C5: for any list of backend ids and any set of backends whose call throws,
\* compareWithModels returns one report per requested id, in the order of the
\* ids; the report of a backend whose call threw is the degraded one, and the
\* report of every other backend is the one it gets when no backend fails.
C5_CompareIsolatesFailures ==
    /\ pc \in {"compare:select", "compare:request"} => outcome = "none"
    /\ (pc = "idle" /\ modelIds # <<>>) => outcome = "returned"
    /\ CompareReturned =>
          /\ Len(result) = Len(modelIds)
          /\ \A i \in 1..Len(modelIds) :
                /\ result[i].prNumber = prNumber
                /\ fates[i].threw => (IsDegraded(result[i]) /\ result[i].modelUsed = "unknown")
                /\ ~fates[i].threw => result[i] = AloneReport(modelIds[i], fates[i].text)

\* Two backends, the first call throws and the second answers a clean report.
C5_Witness ==
    /\ CompareReturned
    /\ Len(modelIds) = 2
    /\ fates[1].threw
    /\ ~fates[2].threw
    /\ fates[2].text = Render(DeepGood)
    /\ result[2].complexityScore = JNum(72)
    /\ result[2].qualityGrade = <<"B">>

\* sub occurs in text.
Contains(text, sub) ==
    \E i \in 0..(Len(text) - Len(sub)) : SubSeq(text, i + 1, i + Len(sub)) = sub

\* C6: analyze never raises; when its backend call fails it returns a report
\* with complexityScore 0, qualityGrade C, no categories, no recommendations,
\* the metrics of the submission, and a summary that contains the message of
\* the failure.
C6_AnalyzeFallback ==
    /\ outcome # "threw"
    /\ (AnalyzeReturned /\ backend = "rejected") =>
          /\ outcome = "returned"
          /\ IsDegraded(result)
          /\ result.prNumber = prNumber
          /\ result.metrics.totalFilesChanged = Len(changedFiles)
          /\ result.metrics = ComputeMetrics(chunks, changedFiles)
          /\ result.overallSummary.t = "string"
          /\ Contains(result.overallSummary.s, fates[1].text)

C6_Witness ==
    /\ AnalyzeReturned
    /\ backend = "rejected"
    /\ fates[1].text = <<"Request failed: quota exceeded">>
    /\ result.metrics.totalFilesChanged = 3
    /\ result.metrics.testCoverage = "good"
    /\ result.metrics.hotspotFiles = <<ChunkLogin.filePath, ChunkLoginTest.filePath>>


----------------------------------------------------------------------------
(* RiskAnalyzer *)

\* A reason of a report: the text of the code, and the number the code puts
\* into it (0 where the text has none).
Reason(text, n) == [text |-> text, n |-> n]

AuthDirectoryReason == Reason("File is in an authentication/authorization directory", 0)
SensitiveFileReason == Reason("File may contain sensitive credentials or certificates", 0)
MiddlewareReason    == Reason("File is middleware: changes may affect request/response pipeline", 0)
DependencyReason    == Reason("Dependency file changed: supply chain risk", 0)
SchemaReason        == Reason("Schema or migration change detected", 0)
KeywordReason(n)    == Reason("Contains auth-related keyword(s)", n)
LargeDeletionReason(n)   == Reason("Large deletion: lines removed", n)
NotableDeletionReason(n) == Reason("Notable deletion: lines removed", n)
ImportReason(n)     == Reason("chunk(s) contain import/dependency changes", n)
FunctionReason(n)   == Reason("function-level changes detected", n)
NoRiskReason        == Reason("No significant risk factors identified", 0)

\* /\/(auth|authentication|authorization|login|oauth)\//i.test(filePath)
InAuthDirectory(path) ==
    \E i \in 1..(Len(path) - 2) :
        /\ path[i] = "/"
        /\ Lower(path[i + 1]) \in {"auth", "authentication", "authorization", "login", "oauth"}
        /\ path[i + 2] = "/"

\* /\.(env|secret|key|pem|cert)(\.|$)/i.test(filePath)
IsSensitiveFile(path) ==
    \E i \in 1..(Len(path) - 1) :
        /\ path[i] = "."
        /\ Lower(path[i + 1]) \in {"env", "secret", "key", "pem", "cert"}
        /\ (i + 1 = Len(path) \/ path[i + 2] = ".")

\* /\/(middleware|interceptor)\//i.test(filePath)
InMiddlewareDirectory(path) ==
    \E i \in 1..(Len(path) - 2) :
        /\ path[i] = "/"
        /\ Lower(path[i + 1]) \in {"middleware", "interceptor"}
        /\ path[i + 2] = "/"

\* /(package\.json|package-lock\.json|yarn\.lock|requirements\.txt|Gemfile|go\.sum|pom\.xml)/i
\* .test(filePath): the pattern is not anchored.
IsDependencyManifest(path) ==
    \E i \in 1..Len(path) :
        \/ Lower(path[i]) = "gemfile"
        \/ /\ i + 2 <= Len(path)
           /\ path[i + 1] = "."
           /\ <<Lower(path[i]), Lower(path[i + 2])>> \in
                 {<<"package", "json">>, <<"package-lock", "json">>, <<"yarn", "lock">>,
                  <<"requirements", "txt">>, <<"go", "sum">>, <<"pom", "xml">>}

\* /\/(migrations?|schema|model)\//i.test(filePath) || /\.(sql|prisma|graphql)$/.test(filePath)
IsSchemaChange(path) ==
    \/ \E i \in 1..(Len(path) - 2) :
          /\ path[i] = "/"
          /\ Lower(path[i + 1]) \in {"migration", "migrations", "schema", "model"}
          /\ path[i + 2] = "/"
    \/ /\ Len(path) >= 2
       /\ path[Len(path) - 1] = "."
       /\ path[Len(path)] \in {"sql", "prisma", "graphql"}

RiskKeywords ==
    {"auth", "token", "password", "credential", "secret", "jwt", "oauth", "session"}

\* (allContent.match(/\b(auth|token|...|session)\b/gi) || []).length
AuthMatches(t) ==
    Cardinality({i \in 1..Len(t) :
                    /\ Lower(t[i]) \in RiskKeywords
                    /\ BoundaryBefore(t, i)
                    /\ BoundaryAfter(t, i)})

\* fileChunks.map(c => c.content).join('\n')
RECURSIVE AllContent(_)
AllContent(cs) ==
    IF Len(cs) = 0 THEN <<>>
    ELSE IF Len(cs) = 1 THEN cs[1].content
    ELSE cs[1].content \o <<LF>> \o AllContent(Tail(cs))

\* c.content.split('\n').filter(l => l.startsWith('-')).length
RemovedLines(t) ==
    Cardinality({i \in 1..Len(t) : t[i] \in {"-", "-5"} /\ (i = 1 \/ t[i - 1] = LF)})

\* The lines removed by the deletion and modification chunks of a file.
TotalDeletions(cs) ==
    SumSeq([k \in 1..Len(cs) |->
               IF cs[k].type \in {"deletion", "modification"}
               THEN RemovedLines(cs[k].content) ELSE 0])

ImportChanges(cs) == Cardinality({k \in 1..Len(cs) : cs[k].metadata.containsImportChange})
FunctionChanges(cs) == Cardinality({k \in 1..Len(cs) : cs[k].metadata.containsFunction})

\* A rule that adds its points without pushing its reason.
RuleWithoutReason(fires, points, reason) ==
    IF fires THEN [points |-> points, reasons |-> <<>>]
    ELSE [points |-> 0, reasons |-> <<>>]

\* One rule of the scorer: the points it adds and the reason it gives, no
\* points and no reason if it does not fire.
Rule(fires, points, reason) ==
    IF fires THEN [points |-> points, reasons |-> <<reason>>]
    ELSE [points |-> 0, reasons |-> <<>>]

AuthDirectoryPoints == 30
SensitiveFilePoints == 25
MiddlewarePoints    == 20
DependencyPoints    == 20
SchemaPoints        == 15
KeywordPoints(n)    == Min({n * 5, 20})
ImportPoints(n)     == Min({n * 3, 10})

\* The rules in the order the code applies them to the chunks cs of path.
Rules(path, cs) ==
    The({<<Rule(InAuthDirectory(path), AuthDirectoryPoints, AuthDirectoryReason),
           Rule(IsSensitiveFile(path), SensitiveFilePoints, SensitiveFileReason),
           Rule(InMiddlewareDirectory(path), MiddlewarePoints, MiddlewareReason),
           Rule(IsDependencyManifest(path), DependencyPoints, DependencyReason),
           Rule(IsSchemaChange(path), SchemaPoints, SchemaReason),
           Rule(n.auth > 0, KeywordPoints(n.auth), KeywordReason(n.auth)),
           IF n.del > 50 THEN Rule(TRUE, 15, LargeDeletionReason(n.del))
           ELSE Rule(n.del > 20, 8, NotableDeletionReason(n.del)),
           Rule(n.imp > 0, ImportPoints(n.imp), ImportReason(n.imp)),
           Rule(n.fun > 3, 10, FunctionReason(n.fun))>> :
            n \in {[auth |-> AuthMatches(AllContent(cs)),
                    del  |-> TotalDeletions(cs),
                    imp  |-> ImportChanges(cs),
                    fun  |-> FunctionChanges(cs)]}})

RECURSIVE RuleReasons(_)
RuleReasons(rules) ==
    IF rules = <<>> THEN <<>> ELSE Head(rules).reasons \o RuleReasons(Tail(rules))

ScoreCap == 100
HighThreshold == 60
MediumThreshold == 30

RiskLevel(score) ==
    IF score >= HighThreshold THEN "high"
    ELSE IF score >= MediumThreshold THEN "medium"
    ELSE "low"

\* The report of one file if the score were not capped.
RiskReportUncapped(path, cs) ==
    The({[filePath |-> path,
          score    |-> SumSeq([k \in 1..Len(rules) |-> rules[k].points]),
          level    |-> RiskLevel(SumSeq([k \in 1..Len(rules) |-> rules[k].points])),
          reasons  |-> IF RuleReasons(rules) = <<>> THEN <<NoRiskReason>>
                       ELSE RuleReasons(rules)] :
            rules \in {Rules(path, cs)}})

\* The report of one file.
RiskReport(path, cs) ==
    The({[filePath |-> path,
          score    |-> Min({SumSeq([k \in 1..Len(rules) |-> rules[k].points]), ScoreCap}),
          level    |-> RiskLevel(Min({SumSeq([k \in 1..Len(rules) |-> rules[k].points]),
                                      ScoreCap})),
          reasons  |-> IF RuleReasons(rules) = <<>> THEN <<NoRiskReason>>
                       ELSE RuleReasons(rules)] :
            rules \in {Rules(path, cs)}})

\* The reports in the insertion order of the map of files.
RiskReports(cs) ==
    The({[k \in 1..Len(paths) |-> RiskReport(paths[k], ChunksOf(cs, paths[k]))] :
            paths \in {FilePaths(cs)}})

\* analyze if it returned the reports without sorting them.
RiskAnalyzeUnsorted(cs) == RiskReports(cs)

\* RiskAnalyzer.analyze: reports.sort((a, b) => b.score - a.score)
RiskAnalyze(cs) ==
    The({[k \in 1..Len(rs) |->
             SortDesc([j \in 1..Len(rs) |-> [key |-> rs[j].score, report |-> rs[j]]],
                      Len(rs))[k].report] :
            rs \in {RiskReports(cs)}})


----------------------------------------------------------------------------
(* The diffs parsed and scored *)

MaxFiles == 3      \* the most files of a diff

Digits(n) == CHOOSE c \in NumTokens : NumValue(c) = n

\* The first line of a file of a unified diff, after which git may put
\* "index", "---" and "+++" lines.
FileHeader(path) == <<DIFFGIT, "a", "/">> \o path \o <<SP, "b", "/">> \o path
OldFileLine(path) == <<"-", "-", "-", SP, "a", "/">> \o path
NewFileLine(path) == <<"+", "+", "+", SP, "b", "/">> \o path

HunkHeader(oldStart, oldCount, newStart, newCount) ==
    <<HUNK, SP, "-", Digits(oldStart), ",", Digits(oldCount), SP,
      "+", Digits(newStart), ",", Digits(newCount), SP, HUNK>>

\* n lines, each line the tokens given.
Repeated(line, n) == [k \in 1..n |-> line]

HunkPlain    == <<HunkHeader(1, 1, 1, 2), <<SP, "y">>, <<"+", "x">>>>
HunkKeywords == <<HunkHeader(12, 0, 12, 2),
                  <<"+", "const", SP, "token">>, <<"+", "return", SP, "Password">>>>
HunkModify   == <<HunkHeader(1, 1, 1, 1), <<"-", "old">>, <<"+", "new">>>>
HunkImport   == <<HunkHeader(1, 0, 1, 2), <<"+", "import", SP, "x">>, <<"+", "x">>>>
HunkFunction(start) ==
    <<HunkHeader(start, 1, start, 2), <<SP, "y">>, <<"+", "function", SP, "x">>>>
HunkRemoved(n) == <<HunkHeader(1, n, 1, 0)>> \o Repeated(<<"-", "old">>, n)

RECURSIVE Flatten(_)
Flatten(qs) == IF qs = <<>> THEN <<>> ELSE Head(qs) \o Flatten(Tail(qs))

\* The lines of one file of a diff.
FileBlock(path, hunks) ==
    <<FileHeader(path), OldFileLine(path), NewFileLine(path)>> \o Flatten(hunks)

PathLogin     == <<"src", "/", "auth", "/", "login", ".", "ts">>
PathTopAuth   == <<"auth", "/", "handler", ".", "ts">>
PathReadme    == <<"README", ".", "md">>
PathEverything ==
    <<"srv", "/", "auth", "/", "middleware", "/", "schema", "/", "package", ".", "json",
      ".", "pem">>
PathSql       == <<"data", "/", "old", ".", "sql">>
PathApi       == <<"src", "/", "api", ".", "ts">>
PathLoginForm == <<"src", "/", "Login", "/", "form", ".", "ts">>
PathKey       == <<"src", "/", "oauth", "/", "server", ".", "key">>

FileBlocks ==
    {FileBlock(PathLogin, <<HunkKeywords>>),
     FileBlock(PathTopAuth, <<HunkPlain>>),
     FileBlock(PathReadme, <<HunkRemoved(21)>>),
     FileBlock(PathEverything, <<HunkKeywords>>),
     FileBlock(PathSql, <<HunkRemoved(51)>>),
     FileBlock(PathApi, <<HunkImport, HunkFunction(12), HunkFunction(21), HunkFunction(50),
                          HunkFunction(60)>>),
     FileBlock(PathLoginForm, <<HunkPlain>>),
     FileBlock(PathKey, <<HunkKeywords, HunkModify>>)}

\* The lists of up to n different files.
RECURSIVE FileLists(_)
FileLists(n) ==
    IF n = 0 THEN {<<>>}
    ELSE FileLists(n - 1) \cup
         {Append(x[1], x[2]) :
             x \in {y \in FileLists(n - 1) \X FileBlocks :
                       /\ Len(y[1]) = n - 1
                       /\ \A i \in 1..Len(y[1]) : y[1][i] # y[2]}}

\* The text of a diff: every line ends with a line feed.
RECURSIVE DiffText(_)
DiffText(lines) ==
    IF lines = <<>> THEN <<>> ELSE Head(lines) \o <<LF>> \o DiffText(Tail(lines))

RiskDiffs == {DiffText(Flatten(q)) : q \in FileLists(MaxFiles)}

\* An added line without a keyword, one with the word "password", and one
\* that has, after U+2028, the text that starts a file header.
PlainLine    == <<"+", "x">>
PasswordLine == <<"+", "const", SP, "password">>
BrokenLine   == <<"+", "x", LS, DIFFGIT, "a", "/", "x", SP, "b", "/", "y">>

\* A diff of the one file src/auth/login.ts whose one hunk adds 60 lines and
\* removes none: the lines at the positions at have the word "password", the
\* line at position broken (if any) is the broken one.
ScenarioDiff(at, broken) ==
    DiffText(FileBlock(PathLogin,
                       <<<<HunkHeader(0, 0, 1, 60)>> \o
                         [k \in 1..60 |-> IF k \in at THEN PasswordLine
                                          ELSE IF k = broken THEN BrokenLine
                                          ELSE PlainLine]>>))

ScenarioDiffs ==
    {ScenarioDiff(at, broken) : at \in {{1, 2, 3}, {2, 30, 60}, {58, 59, 60}},
                                broken \in {0, 1, 31}}

----------------------------------------------------------------------------
(* Parsing and risk scoring as steps *)

RiskIdle == ReviewIdle

\* DiffEngine.parse(d)
ParseCall(d) ==
    /\ pc = "idle"
    /\ pc' = "parsed"
    /\ diff' = d
    /\ chunks' = Parse(d)
    /\ reports' = <<>>
    /\ UNCHANGED <<modelId, rawResponse, outcome, result, activeModelName, askCount, backend>>
    /\ UNCHANGED <<reviewVars, prNumber, changedFiles, modelIds, results, fates, overlapVars, commandVars>>

\* RiskAnalyzer.analyze(chunks)
RiskAnalyzeCall ==
    /\ pc = "parsed"
    /\ pc' = "scored"
    /\ reports' = RiskAnalyze(chunks)
    /\ UNCHANGED <<modelId, rawResponse, outcome, result, activeModelName, askCount, backend>>
    /\ UNCHANGED <<reviewVars, deepVars, diff, overlapVars, commandVars>>

RiskNext ==
    \/ \E d \in RiskDiffs \cup ScenarioDiffs : ParseCall(d)
    \/ RiskAnalyzeCall

SpecRisk == RiskIdle /\ [][RiskNext]_vars


----------------------------------------------------------------------------
(* Claims about the Risk Scorer *)

Scored == pc = "scored"

\* C7: every report analyze returns has an integer score from 0 to 100, and
\* its level follows from the score alone: high iff score >= 60, medium iff
\* 30 <= score < 60, low iff score < 30.
C7_ScoreAndLevel ==
    Scored =>
        \A k \in 1..Len(reports) :
            /\ reports[k].score \in 0..100
            /\ reports[k].level = "high" <=> reports[k].score >= 60
            /\ reports[k].level = "medium" <=>
                  (reports[k].score >= 30 /\ reports[k].score < 60)
            /\ reports[k].level = "low" <=> reports[k].score < 30

\* Reports of all three levels are returned, one of them for a file whose
\* rules add up to more than 100.
C7_Witness ==
    /\ Scored
    /\ \A l \in {"low", "medium", "high"} : \E k \in 1..Len(reports) : reports[k].level = l
    /\ \E k \in 1..Len(reports) :
          /\ reports[k].score = 100
          /\ SumSeq([r \in 1..9 |->
                       Rules(reports[k].filePath,
                             ChunksOf(chunks, reports[k].filePath))[r].points]) > 100

\* The position of the first chunk of a file in the chunk list.
FirstChunk(path) == Min({i \in 1..Len(chunks) : chunks[i].filePath = path})

\* C8: analyze returns exactly one report for each distinct file path of
\* the chunks, the reports are ordered by non-increasing score, and reports
\* of equal score are in the order in which their paths first occur in the
\* chunk list.
C8_OnePerFileSortedStable ==
    Scored =>
        /\ {reports[k].filePath : k \in 1..Len(reports)} =
              {chunks[i].filePath : i \in 1..Len(chunks)}
        /\ \A j, k \in 1..Len(reports) :
              j < k =>
                 /\ reports[j].filePath # reports[k].filePath
                 /\ reports[j].score >= reports[k].score
                 /\ reports[j].score = reports[k].score =>
                       FirstChunk(reports[j].filePath) < FirstChunk(reports[k].filePath)

\* Three files, one of several chunks: two reports tie, and a report comes
\* before the report of a file that is earlier in the chunk list.
C8_Witness ==
    /\ Scored
    /\ Len(reports) = 3
    /\ Len(chunks) > 3
    /\ \E j, k \in 1..3 : j < k /\ reports[j].score = reports[k].score
    /\ \E j, k \in 1..3 :
          j < k /\ FirstChunk(reports[j].filePath) > FirstChunk(reports[k].filePath)

AuthDirectoryNames == {"auth", "authentication", "authorization", "login", "oauth"}

\* The path has a directory component, at any depth, with one of the names.
HasAuthDirectoryComponent(path) ==
    \E i \in 1..(Len(path) - 1) :
        /\ Lower(path[i]) \in AuthDirectoryNames
        /\ path[i + 1] = "/"
        /\ (i = 1 \/ path[i - 1] = "/")

HasReason(report, reason) == \E r \in 1..Len(report.reasons) : report.reasons[r] = reason

\* C9: the report of a file whose path has a directory component named
\* auth, authentication, authorization, login or oauth, in any case and at
\* any depth, has the authentication/authorization-directory reason and the
\* 30 points of that rule; if no other rule fires its score is exactly 30.
C9_AuthDirectoryRule ==
    Scored =>
        \A k \in 1..Len(reports) :
            HasAuthDirectoryComponent(reports[k].filePath) =>
                /\ HasReason(reports[k], AuthDirectoryReason)
                /\ reports[k].score >= 30
                /\ Len(reports[k].reasons) = 1 => reports[k].score = 30

\* The diff parsed is one of the scenario: the one file src/auth/login.ts
\* with one hunk that adds 60 lines, three of them with the word "password",
\* and removes none.
IsScenario == diff \in ScenarioDiffs

HasKeywordReason(report) ==
    \E r \in 1..Len(report.reasons) :
        report.reasons[r].text = "Contains auth-related keyword(s)"

\* C10: for a diff of the one file src/auth/login.ts whose one hunk adds 60
\* lines with the word "password" three times and removes none, parse and
\* then analyze give exactly one report; its score is at least 45, its level
\* is "high" exactly when the score is at least 60, and its reasons have the
\* authentication-directory reason and a keyword-count reason.
C10_LoginScenario ==
    (Scored /\ IsScenario) =>
        /\ Len(reports) = 1
        /\ reports[1].score >= 45
        /\ reports[1].level = "high" <=> reports[1].score >= 60
        /\ HasReason(reports[1], AuthDirectoryReason)
        /\ HasKeywordReason(reports[1])


----------------------------------------------------------------------------
(* The diffs parsed *)

MaxHunks == 2      \* the most hunks of a file of the diffs parsed

\* A hunk in the middle of a file that adds an import after a context line.
HunkLateImport ==
    <<HunkHeader(12, 1, 12, 2), <<SP, "y">>, <<"+", "import", SP, "x">>>>

\* The hunk of a deleted file: the new file has no lines, so git writes +0,0.
HunkDeletedFile == <<HunkHeader(1, 2, 0, 0), <<"-", "old">>, <<"-", "old">>>>

\* A hunk that adds the line "++i" after a context line.
HunkAddsIncrement == <<HunkHeader(50, 1, 50, 2), <<SP, "y">>, <<"+", "+", "+", "i">>>>

\* A hunk that adds a line and removes the line "-- note".
HunkRemovesDashes ==
    <<HunkHeader(60, 1, 60, 1), <<"-", "-", "-", SP, "note">>, <<"+", "x">>>>

\* A hunk whose header names the enclosing function, as git does.
HunkInFunction ==
    <<HunkHeader(21, 2, 21, 1) \o <<SP, "function", SP, "x">>,
      <<SP, "y">>, <<"-", "require", SP, "x">>>>

Hunks ==
    {HunkPlain, HunkKeywords, HunkModify, HunkImport, HunkLateImport, HunkDeletedFile,
     HunkAddsIncrement, HunkRemovesDashes, HunkInFunction}

\* The lists of 1 to n hunks.
RECURSIVE HunkLists(_)
HunkLists(n) ==
    IF n = 0 THEN {}
    ELSE HunkLists(n - 1) \cup
         {Append(x[1], x[2]) :
             x \in {y \in (HunkLists(n - 1) \cup {<<>>}) \X Hunks : Len(y[1]) = n - 1}}

PathLib == <<"lib", "/", "net", "/", "util", ".", "ts">>

ParsePaths == {PathLogin, PathReadme, PathLib}

\* Texts of white space only.
BlankTexts == {<<>>, <<SP>>, <<SP, SP, SP>>, <<LF>>, <<SP, LF, LS, SP>>}

\* Diffs of two files, with and without a line feed at the end, and a diff
\* that follows the text of a commit message.
TwoFileDiffs ==
    {text \in UNION {{DiffText(lines), JoinLines(lines),
                      <<"Fix", SP, "login", LF, LF>> \o DiffText(lines)} :
                        lines \in {FileBlock(PathLogin, <<HunkImport, HunkModify>>)
                                       \o FileBlock(PathReadme, <<HunkPlain>>),
                                   FileBlock(PathLib, <<HunkLateImport>>)
                                       \o FileBlock(PathLogin, <<HunkKeywords>>)}} : TRUE}

\* Hunks that add a call of a function named login or logout.
HunkCallsLogin  == <<HunkHeader(12, 0, 12, 1), <<"+", "login", "(", "x", ")">>>>
HunkCallsLogout == <<HunkHeader(1, 1, 1, 2), <<SP, "y">>, <<"+", "logout", "(", ")">>>>

\* Diffs whose added lines use the words of sign-in code.
VocabularyDiffs ==
    {DiffText(FileBlock(PathLib, <<HunkCallsLogin>>)),
     DiffText(FileBlock(PathLib, <<HunkPlain, HunkCallsLogout>>)),
     DiffText(FileBlock(PathLib, <<HunkCallsLogin, HunkKeywords>>)),
     DiffText(FileBlock(PathReadme, <<HunkCallsLogin>>) \o FileBlock(PathLib, <<HunkKeywords>>))}

ParseDiffs ==
    {DiffText(FileBlock(path, hunks)) : path \in ParsePaths, hunks \in HunkLists(MaxHunks)}
        \cup TwoFileDiffs \cup VocabularyDiffs \cup BlankTexts

ParseNext ==
    \/ \E d \in ParseDiffs : ParseCall(d)
    \/ RiskAnalyzeCall

SpecParse == RiskIdle /\ [][ParseNext]_vars


----------------------------------------------------------------------------
(* Claims about the Diff Parser *)

Parsed == pc \in {"parsed", "scored"}

\* The number of lines of a text that are separated by line feeds.
NewlineSeparatedLines(t) == Cardinality({i \in 1..Len(t) : t[i] = LF}) + 1

\* C11: every chunk parse returns has startLine <= endLine, and
\* endLine - startLine + 1 is the number of newline-separated lines of the
\* content the chunk stores.
C11_LineRange ==
    Parsed =>
        \A k \in 1..Len(chunks) :
            /\ chunks[k].startLine <= chunks[k].endLine
            /\ chunks[k].endLine - chunks[k].startLine + 1 =
                  NewlineSeparatedLines(chunks[k].content)

\* Two chunks of one file are returned, one of them of three lines that
\* does not start at line 1.
C11_Witness ==
    /\ Parsed
    /\ Len(chunks) = 2
    /\ \E k \in 1..2 :
          /\ chunks[k].startLine > 1
          /\ NewlineSeparatedLines(chunks[k].content) = 3

\* Position i of text t is the start of a line.
LineStartsAt(t, i) == i = 1 \/ t[i - 1] = LF

\* The line of t that starts at position i starts with c but not with ccc.
LineHasMark(t, i, c) ==
    /\ LineStartsAt(t, i)
    /\ t[i] = c
    /\ ~(i + 2 <= Len(t) /\ t[i + 1] = c /\ t[i + 2] = c)

HasAddedLine(t) == \E i \in 1..Len(t) : LineHasMark(t, i, "+")
HasRemovedLine(t) == \E i \in 1..Len(t) : LineHasMark(t, i, "-")

\* C12: the kind of a chunk parse returns is modification if and only if
\* its content has a line that starts with + but not with +++ and a line
\* that starts with - but not with ---.
C12_ModificationKind ==
    Parsed =>
        \A k \in 1..Len(chunks) :
            chunks[k].type = "modification" <=>
                (HasAddedLine(chunks[k].content) /\ HasRemovedLine(chunks[k].content))

\* A modification is returned together with a chunk that is none although
\* it has a line that starts with + and a line that starts with ---.
C12_Witness ==
    /\ Parsed
    /\ \E k \in 1..Len(chunks) : chunks[k].type = "modification"
    /\ \E k \in 1..Len(chunks) :
          /\ chunks[k].type # "modification"
          /\ HasAddedLine(chunks[k].content)
          /\ \E i \in 1..(Len(chunks[k].content) - 2) :
                /\ LineStartsAt(chunks[k].content, i)
                /\ chunks[k].content[i] = "-"
                /\ chunks[k].content[i + 1] = "-"
                /\ chunks[k].content[i + 2] = "-"

IsBlank(t) == \A i \in 1..Len(t) : t[i] \in {SP, LF, LS}

\* C13: parse returns the empty list for the empty string and for every
\* input of white space only.
C13_BlankInput == (Parsed /\ IsBlank(diff)) => chunks = <<>>

\* A text of several white-space characters, a line feed among them, has
\* been parsed.
C13_Witness ==
    /\ Parsed
    /\ IsBlank(diff)
    /\ Len(diff) > 1
    /\ \E i \in 1..Len(diff) : diff[i] = LF


\* Position i of diff d holds the text that starts a file header, at the
\* start of a line.
FileHeaderAt(d, i) == d[i] = DIFFGIT /\ (i = 1 \/ d[i - 1] = LF)

\* The file blocks of d: for each file header, the text after "diff --git "
\* up to the next file header or the end.
FileBlocksOf(d) ==
    LET heads == Ascending({i \in 1..Len(d) : FileHeaderAt(d, i)})
    IN  [k \in 1..Len(heads) |->
            SubSeq(d, heads[k] + 1,
                      IF k = Len(heads) THEN Len(d) ELSE heads[k + 1] - 1)]

\* The line is "a/<path> b/<path>" for this path.
IsHeaderFor(line, path) == line = <<"a", "/">> \o path \o <<SP, "b", "/">> \o path

\* The destination path of a header line "a/<path> b/<path>".
HeaderPath(line) == SubSeq(line, 3, 2 + ((Len(line) - 5) \div 2))

WellFormedHeader(line) == Len(line) >= 7 /\ IsHeaderFor(line, HeaderPath(line))

\* The chunks of a diff lie in the order of the file blocks; the chunks
\* from..to are those of block b.
ChunksOfBlocks(sizes) ==
    /\ Len(chunks) = SumSeq(sizes)
    /\ \A b \in 1..Len(sizes) :
          \A k \in (SumSeq(SubSeq(sizes, 1, b - 1)) + 1)..SumSeq(SubSeq(sizes, 1, b)) :
              chunks[k].filePath = HeaderPath(SplitLines(FileBlocksOf(diff)[b])[1])

\* C17: every chunk parse makes from a file block whose header is
\* "diff --git a/<path> b/<path>" has the filePath <path>, whatever the
\* path, paths of several directories included: the chunks can be divided
\* among the blocks, in order, so that each has the path of its block.
C17_DestinationPath ==
    (Parsed /\ \A b \in 1..Len(FileBlocksOf(diff)) :
                   WellFormedHeader(SplitLines(FileBlocksOf(diff)[b])[1])) =>
        \E sizes \in [1..Len(FileBlocksOf(diff)) -> 0..Len(chunks)] : ChunksOfBlocks(sizes)

\* The hunks of the lines of a block that have at least one line: for each,
\* the start line of its header and the lines up to the next header or the
\* end of the block.
HunksOfBlock(lines) ==
    LET heads == {j \in 1..Len(lines) : HunkStart(lines[j]) >= 0}
        Until(j) == Min({h \in heads : h > j} \cup {Len(lines) + 1})
        full  == Ascending({j \in heads : Until(j) > j + 1})
    IN  [k \in 1..Len(full) |->
            [startLine |-> HunkStart(lines[full[k]]),
             content   |-> JoinLines(SubSeq(lines, full[k] + 1, Until(full[k]) - 1))]]

RECURSIVE HunksOfBlocks(_, _)
HunksOfBlocks(blocks, b) ==
    IF b > Len(blocks) THEN <<>>
    ELSE HunksOfBlock(SplitLines(blocks[b])) \o HunksOfBlocks(blocks, b + 1)

\* C18: for each hunk header of a file block that is followed by at least
\* one line before the next hunk header or the end of the block, parse
\* returns exactly one chunk, whose startLine is the new-file start line of
\* the header and whose content is the lines up to the next header or the
\* end of the block; the chunks are in the order of the headers, and no
\* line before the first hunk header of a block is in a chunk.
C18_OneChunkPerHunk ==
    Parsed =>
        [k \in 1..Len(chunks) |->
            [startLine |-> chunks[k].startLine, content |-> chunks[k].content]]
          = HunksOfBlocks(FileBlocksOf(diff), 1)

ImportKeywords == {"import", "require", "from"}

\* The line of t that starts at position i starts with + or -, then has
\* optional spaces, then an import keyword.
IsImportLine(t, i) ==
    /\ LineStartsAt(t, i)
    /\ t[i] \in {"+", "-"}
    /\ \E j \in (i + 1)..Len(t) :
          /\ t[j] \in ImportKeywords
          /\ \A s \in (i + 1)..(j - 1) : t[s] = SP

\* C19: the contains-import-change flag of a chunk is true if and only if
\* some line of the hunk, at any position in it, starts with + or - followed,
\* after optional white space, by an import keyword.
C19_ImportFlag ==
    Parsed =>
        \A k \in 1..Len(chunks) :
            chunks[k].metadata.containsImportChange <=>
                \E i \in 1..Len(chunks[k].content) : IsImportLine(chunks[k].content, i)

\* C20: a chunk whose kind is not modification is an addition only if the
\* hunk has an added line and no removed line, and a deletion only if the
\* hunk has a removed line and no added line.
C20_AdditionDeletionKind ==
    Parsed =>
        \A k \in 1..Len(chunks) :
            /\ chunks[k].type = "addition" =>
                  (HasAddedLine(chunks[k].content) /\ ~HasRemovedLine(chunks[k].content))
            /\ chunks[k].type = "deletion" =>
                  (HasRemovedLine(chunks[k].content) /\ ~HasAddedLine(chunks[k].content))


----------------------------------------------------------------------------
(* Claims about the backend a review records *)

BackendNames == {ModelAlpha.name, ModelBeta.name}

\* No list of available backends has a backend that the id selects.
SelectsNoBackend(id) == \A models \in ModelLists : SelectModelById(models, id).threw

\* The id is the id of no available backend.
IsNoBackendId(id) ==
    id # NoModel /\ \A models \in ModelLists : \A i \in 1..Len(models) : models[i].id # id

\* C14: in a sequence of reviewChunk calls with explicit backend ids, made
\* one after another, the name each result records is that of the backend
\* that handled the same call; a result of the backend-failure path of a
\* call whose backend could not be selected does not carry the name of a
\* backend that an earlier call used.
C14_ModelUsedIsOwnBackend ==
    (pc = "idle" /\ outcome = "returned" /\ modelId # NoModel) =>
        /\ backend = "resolved" =>
              result.modelUsed = SelectModelById(<<ModelAlpha, ModelBeta>>, modelId).v.name
        /\ (backend = "rejected" /\ SelectsNoBackend(modelId)) =>
              result.modelUsed \notin BackendNames

\* C16: when reviewChunk is asked for a backend id that is the id of no
\* available backend, no prompt is sent to a backend and the call ends with
\* a selection error for the caller, not with a result.
C16_SelectionErrorSurfaced ==
    IsNoBackendId(modelId) =>
        /\ pc # "request"
        /\ (pc = "idle" /\ outcome # "none") => outcome = "threw"


----------------------------------------------------------------------------
(* reviewChunk calls that overlap.  Each caller runs the steps of reviewChunk
   on the one CopilotService; a step is what runs between two awaits. *)

OverlapIds == {"gpt-4o", "claude-sonnet-4", "o9-ghost"}
OverlapTexts == {Render(SampleObject), <<"not", SP, "json", SP, "at", SP, "all">>}

OverlapIdle == ReviewIdle

OverlapUnchanged ==
    UNCHANGED <<pc, modelId, rawResponse, outcome, result, askCount, backend,
                reviewVars, deepVars, riskVars, commandVars>>

\* Caller k calls reviewChunk(c, m, id): ask awaits the list of models.
OverlapCall(k, c, m, id) ==
    /\ calls[k].pc = "idle"
    /\ calls' = [calls EXCEPT ![k] = [pc |-> "select", chunk |-> c, mode |-> m,
                                      modelId |-> id, backend |-> "none",
                                      result |-> NoResult]]
    /\ UNCHANGED activeModelName
    /\ OverlapUnchanged

\* The model of caller k is found: ask records its name in the service and
\* sends the prompt.
OverlapSelected(k, models) ==
    /\ calls[k].pc = "select"
    /\ ~AskSelectModel(models, calls[k].modelId).threw
    /\ activeModelName' = AskSelectModel(models, calls[k].modelId).v.name
    /\ calls' = [calls EXCEPT ![k].pc = "request"]
    /\ OverlapUnchanged

\* ask of caller k threw: the catch block of reviewChunk returns.
OverlapCatch(k, msg) ==
    /\ calls' = [calls EXCEPT
                   ![k].pc = "done",
                   ![k].backend = "rejected",
                   ![k].result = ReviewUnavailable(calls[k].chunk, calls[k].mode, msg,
                                                   activeModelName)]
    /\ UNCHANGED activeModelName
    /\ OverlapUnchanged

OverlapSelectFails(k, models) ==
    /\ calls[k].pc = "select"
    /\ AskSelectModel(models, calls[k].modelId).threw
    /\ OverlapCatch(k, AskSelectModel(models, calls[k].modelId).v)

OverlapRequestFails(k, msg) ==
    /\ calls[k].pc = "request"
    /\ OverlapCatch(k, msg)

\* The stream of caller k ends: ask returns the trimmed text and reviewChunk
\* decodes it.
OverlapResolves(k, text) ==
    /\ calls[k].pc = "request"
    /\ \E done \in {ReviewDecode(calls[k].chunk, calls[k].mode, Trim(text), activeModelName)} :
          calls' = [calls EXCEPT ![k].pc = "done",
                                 ![k].backend = "resolved",
                                 ![k].result = done.v]
    /\ UNCHANGED activeModelName
    /\ OverlapUnchanged

OverlapNext ==
    \E k \in Callers :
        \/ \E c \in ReviewChunks, id \in OverlapIds : OverlapCall(k, c, "security", id)
        \/ \E models \in ModelLists : OverlapSelected(k, models)
        \/ \E models \in ModelLists : OverlapSelectFails(k, models)
        \/ \E msg \in ErrorMessages : OverlapRequestFails(k, msg)
        \/ \E text \in OverlapTexts : OverlapResolves(k, text)

SpecOverlap == OverlapIdle /\ [][OverlapNext]_vars

\* C15: when two reviewChunk calls for different backends overlap in time,
\* each result that comes from a backend response records the name of the
\* backend that produced that response, in every interleaving.
C15_OverlappingCallsIndependent ==
    \A k \in Callers :
        (/\ calls[k].pc = "done"
         /\ calls[k].backend = "resolved"
         /\ \A other \in Callers \ {k} :
               calls[other].pc # "idle" /\ calls[other].modelId # calls[k].modelId) =>
            calls[k].result.modelUsed =
                SelectModelById(<<ModelAlpha, ModelBeta>>, calls[k].modelId).v.name

----------------------------------------------------------------------------
(* Claims about the fields of reviewChunk's result *)

Severities == {"info", "warning", "error"}

\* The findings of a result: the members of its suggestions when that is an
\* array.
Findings(r) == IF r.suggestions.t = "array" THEN r.suggestions.a ELSE <<>>

\* C21: every result reviewChunk returns has a riskLevel among low, medium
\* and high, and every finding in it has a severity among info, warning and
\* error, whatever JSON the backend returned.
C21_LevelsAndSeveritiesInRange ==
    (ReviewReturned /\ outcome = "returned") =>
        /\ result.riskLevel \in {JStr(<<l>>) : l \in RiskLevels}
        /\ \A i \in 1..Len(Findings(result)) :
              GetProp(Findings(result)[i], <<"severity">>) \in {JStr(<<s>>) : s \in Severities}

\* The messages ask can fail with: those of a failed request and those of a
\* failed selection.
FailureMessages ==
    ErrorMessages \cup
    {AskSelectModel(x[1], x[2]).v :
        x \in {y \in ModelLists \X (RequestIds \cup {NoModel}) :
                  AskSelectModel(y[1], y[2]).threw}}

\* C24: when the backend call of reviewChunk fails, the result has no
\* suggestions, riskLevel low and a summary that contains the failure's
\* message, and the backend was called exactly once: the call is not retried.
C24_FailureResult ==
    (ReviewReturned /\ backend = "rejected") =>
        /\ outcome = "returned"
        /\ result.suggestions = JArr(<<>>)
        /\ result.riskLevel = JStr(<<"low">>)
        /\ \E msg \in FailureMessages :
              result.summary = JStr(<<"Copilot unavailable: ">> \o msg)
        /\ askCount = 1
        /\ rawResponse = <<>>

C24_Witness ==
    /\ ReviewReturned
    /\ backend = "rejected"
    /\ result.summary = JStr(<<"Copilot unavailable: ", "Response got filtered">>)
    /\ activeModelName # NoModel

----------------------------------------------------------------------------
(* Claims about the degraded reports of the deep-analysis engine *)

\* The response text is no JSON once its fences are stripped.
Undecodable(raw) == ~JSONParse(StripFences(raw)).ok

FirstCharacters(raw, n) == SubSeq(raw, 1, Min({n, Len(raw)}))

\* C22: when the backend's response cannot be decoded, the report, whether it
\* comes from analyze or from compareWithModels, has the first 500 characters
\* of the raw response as its summary, complexityScore 50, qualityGrade C and
\* no categories and no recommendations.
C22_UndecodableReport ==
    \A i \in 1..Len(ReturnedReports) :
        (~fates[i].threw /\ Undecodable(fates[i].text)) =>
            /\ ReturnedReports[i].overallSummary = JStr(FirstCharacters(fates[i].text, 500))
            /\ ReturnedReports[i].complexityScore = JNum(50)
            /\ ReturnedReports[i].qualityGrade = <<"C">>
            /\ ReturnedReports[i].categories = JArr(<<>>)
            /\ ReturnedReports[i].recommendations = JArr(<<>>)

Distinct(ids) == \A i, j \in 1..Len(ids) : ids[i] = ids[j] => i = j

\* C23: the reports of compareWithModels are keyed by backend: for each
\* requested backend id there is exactly one report whose modelUsed is that
\* id, for normal and degraded reports alike.
C23_ReportsKeyedByBackend ==
    (CompareReturned /\ Distinct(modelIds)) =>
        \A i \in 1..Len(modelIds) :
            Cardinality({j \in 1..Len(result) : result[j].modelUsed = modelIds[i]}) = 1

----------------------------------------------------------------------------
(* Claims about the score and the reasons of one file *)

\* The points the rule of a reason adds.
ReasonPoints(r) ==
    CASE r.text = AuthDirectoryReason.text -> 30
      [] r.text = SensitiveFileReason.text -> 25
      [] r.text = MiddlewareReason.text -> 20
      [] r.text = DependencyReason.text -> 20
      [] r.text = SchemaReason.text -> 15
      [] r.text = KeywordReason(0).text -> IF r.n * 5 < 20 THEN r.n * 5 ELSE 20
      [] r.text = LargeDeletionReason(0).text -> 15
      [] r.text = NotableDeletionReason(0).text -> 8
      [] r.text = ImportReason(0).text -> IF r.n * 3 < 10 THEN r.n * 3 ELSE 10
      [] r.text = FunctionReason(0).text -> 10
      [] OTHER -> 0

When(fires, reason) == IF fires THEN <<reason>> ELSE <<>>

\* One reason for each rule that fires for the chunks cs of path, in the
\* order of the rules.
FiredReasons(path, cs) ==
    When(InAuthDirectory(path), AuthDirectoryReason)
        \o When(IsSensitiveFile(path), SensitiveFileReason)
        \o When(InMiddlewareDirectory(path), MiddlewareReason)
        \o When(IsDependencyManifest(path), DependencyReason)
        \o When(IsSchemaChange(path), SchemaReason)
        \o When(AuthMatches(AllContent(cs)) > 0, KeywordReason(AuthMatches(AllContent(cs))))
        \o When(TotalDeletions(cs) > 50, LargeDeletionReason(TotalDeletions(cs)))
        \o When(TotalDeletions(cs) > 20 /\ TotalDeletions(cs) <= 50,
                NotableDeletionReason(TotalDeletions(cs)))
        \o When(ImportChanges(cs) > 0, ImportReason(ImportChanges(cs)))
        \o When(FunctionChanges(cs) > 3, FunctionReason(FunctionChanges(cs)))

\* C25: for each file the score is the smaller of 100 and the sum of the
\* points of the rules that fired, reasons holds exactly one reason for each
\* rule that fired, and reasons is the single placeholder exactly when no rule
\* fired.
C25_ScoreIsCappedSumOfFiredRules ==
    Scored =>
        \A k \in 1..Len(reports) :
            \E fired \in {FiredReasons(reports[k].filePath,
                                       ChunksOf(chunks, reports[k].filePath))} :
                /\ reports[k].score =
                      Min({100, SumSeq([j \in 1..Len(fired) |-> ReasonPoints(fired[j])])})
                /\ fired # <<>> => reports[k].reasons = fired
                /\ (reports[k].reasons = <<NoRiskReason>>) <=> (fired = <<>>)

\* A file no rule fires for, a file with three fired rules below the cap and
\* a file whose fired rules add up to more than the cap.
C25_Witness ==
    /\ Scored
    /\ \E k \in 1..Len(reports) : reports[k].reasons = <<NoRiskReason>> /\ reports[k].score = 0
    /\ \E k \in 1..Len(reports) :
          /\ Len(reports[k].reasons) >= 3
          /\ reports[k].score < 100
          /\ reports[k].score =
                SumSeq([j \in 1..Len(reports[k].reasons) |-> ReasonPoints(reports[k].reasons[j])])
    /\ \E k \in 1..Len(reports) :
          /\ reports[k].score = 100
          /\ SumSeq([j \in 1..Len(reports[k].reasons) |-> ReasonPoints(reports[k].reasons[j])]) > 100

----------------------------------------------------------------------------
(* Claims about the vocabulary shared by the parser and the scorer *)

\* Some chunk of the file was flagged by parse as containing sign-in code.
FileHasAuthLogic(path) ==
    \E i \in 1..Len(chunks) :
        chunks[i].filePath = path /\ chunks[i].metadata.containsAuthLogic

\* The keyword rule fired for the report: it has the keyword reason, which
\* stands for at least 5 points.
KeywordRuleFired(report) ==
    \E j \in 1..Len(report.reasons) :
        /\ report.reasons[j].text = KeywordReason(0).text
        /\ ReasonPoints(report.reasons[j]) >= 5

\* C28: the parser and the scorer agree on the vocabulary: when parse flags
\* any chunk of a file with containsAuthLogic the keyword rule of the scorer
\* fires for that file, and when the rule fires some chunk of the file has
\* the flag.
C28_ParserAndScorerAgree ==
    Scored =>
        \A k \in 1..Len(reports) :
            FileHasAuthLogic(reports[k].filePath) <=> KeywordRuleFired(reports[k])

----------------------------------------------------------------------------
(* GitHubAdapter.getDiff *)

\* The characters escapeRegex puts a backslash before.
RegexSpecials == {".", "*", "+", "?", "^", "$", "{", "}", "(", ")", "|", "[", "]", "\\"}

\* str.replace(/[.*+?^${}()|[\]\\]/g, '\\$&'): each token of the text becomes
\* one element of a pattern, a special character after a backslash.
EscapeRegex(str) ==
    [k \in 1..Len(str) |-> IF str[k] \in RegexSpecials THEN <<"\\", str[k]>> ELSE <<str[k]>>]

\* Atoms whose characters are the first characters of a longer atom.
AtomExtensions == {<<"ts", "tsx">>, <<"md", "mdx">>}

\* The characters of atom a are the first characters of atom b.
StartsWithAtom(b, a) == a = b \/ <<a, b>> \in AtomExtensions

\* One element of a pattern matches at the token c: an escaped character
\* matches itself, a bare "." any one character that is no line terminator,
\* a bare atom its own characters, which are all of c or, when nothing of the
\* pattern's path follows, the first of them.
ElementMatches(element, c, last) ==
    IF Len(element) = 2 THEN c = element[2]
    ELSE IF element[1] = "." THEN c \in {SP, "/", ".", ",", "+", "-", "a", "b", "x", "y", "i"}
    ELSE IF last THEN StartsWithAtom(c, element[1])
    ELSE c = element[1]

\* Where "diff --git a/" followed by the pattern matches in the text.
PathMatchesAt(fullDiff, pattern, i) ==
    /\ fullDiff[i] = DIFFGIT
    /\ i + 2 + Len(pattern) <= Len(fullDiff)
    /\ fullDiff[i + 1] = "a"
    /\ fullDiff[i + 2] = "/"
    /\ \A k \in 1..Len(pattern) :
          ElementMatches(pattern[k], fullDiff[i + 2 + k], k = Len(pattern))

\* fullDiff.match(new RegExp("diff --git a/" + escapeRegex(filePath) +
\* "[\s\S]*?(?=diff --git|$)")): the leftmost match, which runs up to the
\* next "diff --git" anywhere in the text, or to the end of the text; the
\* empty string when there is no match.
GetDiff(fullDiff, filePath) ==
    The({IF at = {} THEN <<>>
         ELSE SubSeq(fullDiff, Min(at),
                     Min({j \in (Min(at) + 3 + Len(filePath))..Len(fullDiff) :
                             fullDiff[j] = DIFFGIT} \cup {Len(fullDiff) + 1}) - 1) :
            at \in {{i \in 1..Len(fullDiff) :
                        PathMatchesAt(fullDiff, EscapeRegex(filePath), i)}}})

----------------------------------------------------------------------------
(* The pull request diffs getDiff searches *)

PathApiMap == <<"src", "/", "api", ".", "ts", ".", "map">>
PathApiTsx == <<"src", "/", "api", ".", "tsx">>

\* A hunk of a document that quotes the first line of a diff of src/api.ts.
HunkQuotesHeader ==
    <<HunkHeader(12, 0, 12, 2),
      <<"+", "Example", SP, "output:", SP>> \o FileHeader(PathApi),
      <<"+", "x">>>>

GetDiffBlocks ==
    {FileBlock(PathApi, <<HunkImport>>),
     FileBlock(PathApiMap, <<HunkPlain>>),
     FileBlock(PathApiTsx, <<HunkModify>>),
     FileBlock(PathReadme, <<HunkQuotesHeader>>),
     FileBlock(PathLogin, <<HunkKeywords, HunkPlain>>)}

\* The lists of at most n different blocks.
RECURSIVE BlockLists(_, _)
BlockLists(blocks, n) ==
    IF n = 0 THEN {<<>>}
    ELSE BlockLists(blocks, n - 1) \cup
         {Append(x[1], x[2]) :
             x \in {y \in BlockLists(blocks, n - 1) \X blocks :
                       /\ Len(y[1]) = n - 1
                       /\ \A k \in 1..Len(y[1]) : y[1][k] # y[2]}}

FullDiffs == {DiffText(Flatten(q)) : q \in BlockLists(GetDiffBlocks, MaxFiles)}

GetDiffPaths == {PathApi, PathApiMap, PathReadme, PathLogin}

\* getDiff(prNumber, filePath) when the pull request's diff is fullDiff.
GetDiffCall(fullDiff, filePath) ==
    /\ pc = "idle"
    /\ fetch' = [fullDiff |-> fullDiff, filePath |-> filePath,
                 fileDiff |-> GetDiff(fullDiff, filePath)]
    /\ UNCHANGED <<callVars, reviewVars, deepVars, riskVars, overlapVars, session, merge>>

GetDiffNext == \E fullDiff \in FullDiffs, filePath \in GetDiffPaths : GetDiffCall(fullDiff, filePath)

SpecGetDiff == ReviewIdle /\ [][GetDiffNext]_vars

----------------------------------------------------------------------------
(* Claims about getDiff *)

\* The line of d that starts at position i, without its line feed.
LineAt(d, i) ==
    SubSeq(d, i, Min({j \in i..Len(d) : d[j] = LF} \cup {Len(d) + 1}) - 1)

\* The positions of the file headers of d that name exactly path.
HeadersOf(d, path) ==
    {i \in 1..Len(d) : FileHeaderAt(d, i) /\ LineAt(d, i) = FileHeader(path)}

\* The block of path in d: from its file header up to the next file header
\* or the end of d; the empty text when d has no block of path.
BlockOf(d, path) ==
    IF HeadersOf(d, path) = {} THEN <<>>
    ELSE SubSeq(d, Min(HeadersOf(d, path)),
                Min({j \in (Min(HeadersOf(d, path)) + 1)..Len(d) : FileHeaderAt(d, j)}
                        \cup {Len(d) + 1}) - 1)

GetDiffReturned == fetch # NoFetch

\* C30: getDiff(prNumber, filePath) returns the block of the full diff whose
\* file header names exactly filePath, from its "diff --git" line up to the
\* next file header or the end of the diff, or the empty string when the diff
\* has no block of that file; it never returns a block, or a part of a block,
\* of another file.
C30_GetDiffReturnsTheFilesBlock ==
    GetDiffReturned => fetch.fileDiff = BlockOf(fetch.fullDiff, fetch.filePath)

----------------------------------------------------------------------------
(* The prism.mergePR command *)

Undefined == "<undefined>"    \* what a dismissed prompt resolves with
Unasked   == "<unasked>"      \* the prompt has not been shown

MergeMethods == <<"merge", "squash", "rebase">>

\* The allowed methods of getMergeStatus: those the repository settings
\* allow, or all three when the settings cannot be read.
AllowedMethods(repo) ==
    IF ~repo.available THEN MergeMethods
    ELSE SelectSeq(MergeMethods,
                   LAMBDA m : \/ m = "merge" /\ repo.allow_merge_commit
                              \/ m = "squash" /\ repo.allow_squash_merge
                              \/ m = "rebase" /\ repo.allow_rebase_merge)

\* The fields of getMergeStatus's result the command reads: mergeable is
\* pr.mergeable ?? false.
GetMergeStatus(pr, repo) ==
    [merged         |-> pr.merged,
     mergeable      |-> pr.mergeable = "true",
     allowedMethods |-> AllowedMethods(repo)]

\* methodItems: the allowed ones of merge, squash and rebase, in that order.
MethodItems(status) ==
    SelectSeq(MergeMethods,
              LAMBDA m : \E i \in 1..Len(status.allowedMethods) : status.allowedMethods[i] = m)

Range(q) == {q[i] : i \in 1..Len(q)}

\* What the pulls.get and repos.get requests of getMergeStatus answer.
PullStates == [merged : BOOLEAN, mergeable : {"true", "false", "null"}]
RepoSettings ==
    [available : {TRUE}, allow_merge_commit : BOOLEAN, allow_squash_merge : BOOLEAN,
     allow_rebase_merge : BOOLEAN]
        \cup {[available |-> FALSE, allow_merge_commit |-> FALSE,
               allow_squash_merge |-> FALSE, allow_rebase_merge |-> FALSE]}

\* What the user types as the squash commit title: nothing, or a title.
CommitTitles == {"", "Fix login (#7)"}

\* The command is run: without a pull request it shows an error and returns,
\* otherwise it awaits getMergeStatus.
MergeCommand(hasPr) ==
    /\ pc = "idle"
    /\ merge.pc \in {"idle", "done"}
    /\ merge' = [NoMerge EXCEPT !.pc = IF hasPr THEN "status" ELSE "done",
                                !.outcome = IF hasPr THEN "none" ELSE "returned"]
    /\ UNCHANGED <<callVars, reviewVars, deepVars, riskVars, overlapVars, session, fetch>>

MergeUnchanged ==
    UNCHANGED <<callVars, reviewVars, deepVars, riskVars, overlapVars, session, fetch>>

\* getMergeStatus resolves: the command returns for a merged pull request
\* and when no method is allowed, warns about conflicts when the pull request
\* is not mergeable, and otherwise shows the method pick.
MergeStatusArrives(pr, repo) ==
    /\ merge.pc = "status"
    /\ \E status \in {GetMergeStatus(pr, repo)} :
          merge' = [merge EXCEPT
                      !.status = status,
                      !.pc = IF status.merged THEN "done"
                             ELSE IF ~status.mergeable THEN "conflict"
                             ELSE IF MethodItems(status) = <<>> THEN "done"
                             ELSE "pick",
                      !.outcome = IF status.merged \/ (status.mergeable /\ MethodItems(status) = <<>>)
                                  THEN "returned" ELSE "none"]
    /\ MergeUnchanged

\* getMergeStatus rejects: nothing catches it, the command rejects.
MergeStatusFails ==
    /\ merge.pc = "status"
    /\ merge' = [merge EXCEPT !.pc = "done", !.outcome = "threw"]
    /\ MergeUnchanged

\* The conflict warning is answered or dismissed: the command returns.
MergeConflictAnswered(action) ==
    /\ merge.pc = "conflict"
    /\ merge' = [merge EXCEPT !.pc = "done", !.outcome = "returned"]
    /\ MergeUnchanged

\* The method pick resolves with an item or, dismissed, with undefined.
MergeMethodPicked(selected) ==
    /\ merge.pc = "pick"
    /\ selected \in Range(MethodItems(merge.status)) \cup {Undefined}
    /\ merge' = [merge EXCEPT
                   !.selected = selected,
                   !.pc = IF selected = Undefined THEN "done"
                          ELSE IF selected = "squash" THEN "title"
                          ELSE "confirm",
                   !.outcome = IF selected = Undefined THEN "returned" ELSE "none"]
    /\ MergeUnchanged

\* The input box of the squash title resolves with its text or, dismissed,
\* with undefined.
MergeTitleEntered(title) ==
    /\ merge.pc = "title"
    /\ merge' = [merge EXCEPT
                   !.commitTitle = title,
                   !.pc = IF title = Undefined THEN "done" ELSE "confirm",
                   !.outcome = IF title = Undefined THEN "returned" ELSE "none"]
    /\ MergeUnchanged

\* The confirmation resolves whatever the user answers: the adapter's mergePR
\* is called with the method and the title.
MergeConfirmIgnored(answer) ==
    /\ merge.pc = "confirm"
    /\ merge' = [merge EXCEPT
                   !.confirm = answer,
                   !.pc = "merging",
                   !.mergeCalls = Append(@, [method |-> merge.selected,
                                             commitTitle |-> merge.commitTitle])]
    /\ MergeUnchanged

\* The modal confirmation resolves with "Merge" or, dismissed, with undefined:
\* on "Merge" the adapter's mergePR is called with the method and
\* commitTitle || undefined.
MergeConfirmAnswered(answer) ==
    /\ merge.pc = "confirm"
    /\ merge' = [merge EXCEPT
                   !.confirm = answer,
                   !.pc = IF answer = "Merge" THEN "merging" ELSE "done",
                   !.outcome = IF answer = "Merge" THEN "none" ELSE "returned",
                   !.mergeCalls =
                       IF answer = "Merge"
                       THEN Append(@, [method |-> merge.selected,
                                       commitTitle |->
                                           IF merge.commitTitle \in {"", Unasked}
                                           THEN Undefined ELSE merge.commitTitle])
                       ELSE @]
    /\ MergeUnchanged

\* The adapter's mergePR resolves (it catches the request's error itself):
\* after a merge the command awaits getMergeStatus again for the panel.
MergeResultArrives(success) ==
    /\ merge.pc = "merging"
    /\ merge' = [merge EXCEPT !.pc = IF success THEN "refresh" ELSE "done",
                              !.outcome = IF success THEN "none" ELSE "returned"]
    /\ MergeUnchanged

\* The second getMergeStatus resolves or rejects.
MergeRefreshed(ok) ==
    /\ merge.pc = "refresh"
    /\ merge' = [merge EXCEPT !.pc = "done",
                              !.outcome = IF ok THEN "returned" ELSE "threw"]
    /\ MergeUnchanged

MergeNext ==
    \/ \E hasPr \in BOOLEAN : MergeCommand(hasPr)
    \/ \E pr \in PullStates, repo \in RepoSettings : MergeStatusArrives(pr, repo)
    \/ MergeStatusFails
    \/ \E action \in {"View Status", Undefined} : MergeConflictAnswered(action)
    \/ \E selected \in Range(MergeMethods) \cup {Undefined} : MergeMethodPicked(selected)
    \/ \E title \in CommitTitles \cup {Undefined} : MergeTitleEntered(title)
    \/ \E answer \in {"Merge", Undefined} : MergeConfirmAnswered(answer)
    \/ \E success \in BOOLEAN : MergeResultArrives(success)
    \/ \E ok \in BOOLEAN : MergeRefreshed(ok)

SpecMerge == ReviewIdle /\ [][MergeNext]_vars

----------------------------------------------------------------------------
(* Claims about the prism.mergePR command *)

\* Some prompt of the run was dismissed.
MergePromptCancelled ==
    \/ merge.selected = Undefined
    \/ merge.commitTitle = Undefined
    \/ (merge.confirm # Unasked /\ merge.confirm # "Merge")

\* C29: in a run of prism.mergePR the adapter's mergePR is called at most
\* once, and only after getMergeStatus reported the pull request not merged
\* and mergeable, the user picked one of the allowed methods and confirmed
\* with "Merge"; a run in which a prompt (method pick, squash title,
\* confirmation) was dismissed makes no merge call.
C29_MergeOnlyAfterConfirmation ==
    /\ Len(merge.mergeCalls) <= 1
    /\ merge.mergeCalls # <<>> =>
          /\ ~merge.status.merged
          /\ merge.status.mergeable
          /\ merge.mergeCalls[1].method = merge.selected
          /\ merge.selected \in Range(merge.status.allowedMethods)
          /\ merge.selected = "squash" => merge.commitTitle \notin {Unasked, Undefined}
          /\ merge.confirm = "Merge"
    /\ MergePromptCancelled => merge.mergeCalls = <<>>
    /\ merge.pc = "merging" => Len(merge.mergeCalls) = 1

\* A squash merge with a title was confirmed and made in a repository that
\* does not allow merge commits.
C29_Witness ==
    /\ merge.pc = "done"
    /\ Len(merge.mergeCalls) = 1
    /\ merge.mergeCalls[1] = [method |-> "squash", commitTitle |-> "Fix login (#7)"]
    /\ "merge" \notin Range(merge.status.allowedMethods)

----------------------------------------------------------------------------
(* The prism.reviewPR and prism.multiModelReview commands *)

\* The loop over the chunks if it pushed no result for a chunk whose backend
\* call failed.
PushUnlessUnavailable(s, r) ==
    IF Len(r.summary.s) > 0 /\ r.summary.s[1] = "Copilot unavailable: "
    THEN [s EXCEPT !.pc = "loop", !.reviewed = @ + 1]
    ELSE [s EXCEPT !.pc = "loop", !.reviewed = @ + 1, !.results = Append(@, r)]

\* allResults.push(result) or results.push(result), and the sleep after it:
\* the loop is at its next chunk.
PushResult(s, r) == [s EXCEPT !.pc = "loop", !.reviewed = @ + 1, !.results = Append(@, r)]

\* The backend id reviewChunk is given: none in reviewPR, the id of the
\* model of the round in multiModelReview.
SessionModelId(s) == IF s.kind = "review" THEN NoModel ELSE s.selectedModels[s.model].id

\* The chunk the next reviewChunk call is for.
SessionChunk(s) == s.allChunks[s.reviewed + 1]

\* The chunks of the changed files in parser order: file by file, and within
\* a file in the order parse returns them.
RECURSIVE ChunksInOrder(_, _)
ChunksInOrder(fullDiff, files) ==
    IF files = <<>> THEN <<>>
    ELSE Parse(GetDiff(fullDiff, Head(files))) \o ChunksInOrder(fullDiff, Tail(files))

\* What the pull request of a session answers: the changed files, and the
\* full diff getDiff searches.
SessionPulls ==
    {[files |-> <<>>, fullDiff |-> <<>>],
     [files |-> <<PathReadme>>, fullDiff |-> <<>>],
     [files |-> <<PathReadme, PathLogin>>,
      fullDiff |-> DiffText(FileBlock(PathReadme, <<HunkPlain>>)
                                \o FileBlock(PathLogin, <<HunkKeywords>>))],
     [files |-> <<PathReadme, PathLogin>>,
      fullDiff |-> DiffText(FileBlock(PathReadme, <<HunkPlain>>)
                                \o FileBlock(PathLogin, <<HunkKeywords, HunkModify>>))]}

\* The pull requests compared: those of at most two chunks.
ComparisonPulls ==
    {pull \in SessionPulls : Len(ChunksInOrder(pull.fullDiff, pull.files)) <= 2}

\* The models picked for a comparison.
ModelSelections == {<<ModelBeta>>, <<ModelAlpha, ModelBeta>>}

SessionTexts == {Render(SampleObject), NotJsonAtAll}
SessionErrors == {<<"Response got filtered">>}

SessionUnchanged ==
    UNCHANGED <<pc, modelId, rawResponse, outcome, result, askCount, backend,
                reviewVars, deepVars, riskVars, overlapVars, merge, fetch>>

\* prism.reviewPR for a pull request, or prism.multiModelReview once models
\* have been picked: the panel is shown and the command awaits
\* getChangedFiles.
SessionStart(kind, pull, selected) ==
    /\ pc = "idle"
    /\ session.pc \in {"idle", "done"}
    /\ kind = "review" => selected = <<>>
    /\ kind = "multi" => selected # <<>>
    /\ session' = [NoSession EXCEPT !.kind = kind, !.pc = "files", !.files = pull.files,
                                    !.fullDiff = pull.fullDiff, !.selectedModels = selected,
                                    !.panel = "open"]
    /\ UNCHANGED activeModelName
    /\ SessionUnchanged

\* getChangedFiles resolves.
SessionFilesArrive ==
    /\ session.pc = "files"
    /\ session' = [session EXCEPT !.pc = "loop"]
    /\ UNCHANGED activeModelName
    /\ SessionUnchanged

\* The catch block of the command: panel.showError, which reaches a panel
\* that is open.
SessionCatch ==
    /\ session' = [session EXCEPT !.pc = "done",
                                  !.outcome = IF session.panel = "open" THEN "error" ELSE "threw"]
    /\ UNCHANGED activeModelName
    /\ SessionUnchanged

\* getChangedFiles or getDiff rejects.
SessionRequestRejects ==
    /\ session.pc \in {"files", "diff"}
    /\ SessionCatch

\* The user closes the results panel while the command runs.
PanelClosed ==
    /\ session.pc \notin {"idle", "done"}
    /\ session.panel = "open"
    /\ session' = [session EXCEPT !.panel = "disposed"]
    /\ UNCHANGED activeModelName
    /\ SessionUnchanged

\* The loop of the command is at a call of the panel (showLoading,
\* updateResults, updateMultiModelResults).
AtPanelCall(s) ==
    /\ s.pc = "loop"
    /\ \/ s.kind = "review"
       \/ s.fetched < Len(s.files)
       \/ s.model = 0
       \/ s.reviewed = Len(s.allChunks)

\* A call of a panel that has been disposed throws: the catch block runs,
\* and its showError throws in turn.
PanelCallThrows ==
    /\ AtPanelCall(session)
    /\ session.panel = "disposed"
    /\ SessionCatch

\* The next file of the loop over the changed files: the command awaits
\* getDiff.  reviewPR gets here when every chunk of the files before has been
\* reviewed.
SessionFetchDiff ==
    /\ session.pc = "loop"
    /\ session.fetched < Len(session.files)
    /\ session.kind = "review" => session.reviewed = Len(session.allChunks)
    /\ session' = [session EXCEPT !.pc = "diff"]
    /\ UNCHANGED activeModelName
    /\ SessionUnchanged

\* getDiff resolves: the file's diff is parsed and its chunks are pushed.
SessionDiffArrives ==
    /\ session.pc = "diff"
    /\ session' = [session EXCEPT
                     !.pc = "loop",
                     !.fetched = @ + 1,
                     !.allChunks = @ \o Parse(GetDiff(session.fullDiff,
                                                      session.files[session.fetched + 1]))]
    /\ UNCHANGED activeModelName
    /\ SessionUnchanged

\* multiModelReview: the results of the round before are pushed and the
\* round of the next model begins.
SessionNextModel ==
    /\ session.pc = "loop"
    /\ session.kind = "multi"
    /\ session.fetched = Len(session.files)
    /\ session.model < Len(session.selectedModels)
    /\ session.model = 0 \/ session.reviewed = Len(session.allChunks)
    /\ session' = [session EXCEPT
                     !.model = @ + 1,
                     !.reviewed = 0,
                     !.results = <<>>,
                     !.modelResults =
                         IF session.model = 0 THEN @
                         ELSE Append(@, [modelName |-> session.selectedModels[session.model].name,
                                         results   |-> session.results])]
    /\ UNCHANGED activeModelName
    /\ SessionUnchanged

\* The next chunk of the loop over the chunks: reviewChunk is called and
\* awaits ask.
SessionReviewStarts ==
    /\ session.pc = "loop"
    /\ session.reviewed < Len(session.allChunks)
    /\ session.kind = "multi" => (session.fetched = Len(session.files) /\ session.model > 0)
    /\ session' = [session EXCEPT !.pc = "ask", !.asks = @ + 1]
    /\ UNCHANGED activeModelName
    /\ SessionUnchanged

\* ask finds no model: reviewChunk returns the result of its catch block.
SessionSelectFails(models) ==
    /\ session.pc = "ask"
    /\ AskSelectModel(models, SessionModelId(session)).threw
    /\ session' = PushResult(session,
                             ReviewUnavailable(SessionChunk(session), session.mode,
                                 AskSelectModel(models, SessionModelId(session)).v,
                                 activeModelName))
    /\ UNCHANGED activeModelName
    /\ SessionUnchanged

\* ask finds the model and its request fails.
SessionRequestFails(models, msg) ==
    /\ session.pc = "ask"
    /\ ~AskSelectModel(models, SessionModelId(session)).threw
    /\ \E name \in {AskSelectModel(models, SessionModelId(session)).v.name} :
          /\ activeModelName' = name
          /\ session' = PushResult(session,
                                   ReviewUnavailable(SessionChunk(session), session.mode,
                                                     msg, name))
    /\ SessionUnchanged

\* ask returns the text of the response and reviewChunk decodes it.
SessionAskResolves(models, text) ==
    /\ session.pc = "ask"
    /\ ~AskSelectModel(models, SessionModelId(session)).threw
    /\ \E name \in {AskSelectModel(models, SessionModelId(session)).v.name} :
          /\ activeModelName' = name
          /\ session' = PushResult(session,
                                   ReviewDecode(SessionChunk(session), session.mode,
                                                Trim(text), name).v)
    /\ SessionUnchanged

\* The loops are over: the risk reports are computed and the results are
\* given to the panel, which shows them when it is open.
SessionFinish ==
    /\ session.pc = "loop"
    /\ session.fetched = Len(session.files)
    /\ session.reviewed = Len(session.allChunks)
    /\ session.kind = "multi" => session.model = Len(session.selectedModels)
    /\ session' = [session EXCEPT
                     !.pc = "done",
                     !.outcome = IF session.panel = "open" THEN "shown" ELSE "dropped",
                     !.modelResults =
                         IF session.kind = "review" THEN @
                         ELSE Append(@, [modelName |-> session.selectedModels[session.model].name,
                                         results   |-> session.results]),
                     !.shown = RiskAnalyze(session.allChunks)]
    /\ UNCHANGED activeModelName
    /\ SessionUnchanged

SessionNext ==
    \/ \E pull \in SessionPulls : SessionStart("review", pull, <<>>)
    \/ \E pull \in ComparisonPulls, selected \in ModelSelections :
          SessionStart("multi", pull, selected)
    \/ SessionFilesArrive
    \/ SessionRequestRejects
    \/ PanelClosed
    \/ PanelCallThrows
    \/ SessionFetchDiff
    \/ SessionDiffArrives
    \/ SessionNextModel
    \/ SessionReviewStarts
    \/ \E models \in ModelLists : SessionSelectFails(models)
    \/ \E models \in ModelLists, msg \in SessionErrors : SessionRequestFails(models, msg)
    \/ \E models \in ModelLists, text \in SessionTexts : SessionAskResolves(models, text)
    \/ SessionFinish

SpecSession == ReviewIdle /\ [][SessionNext]_vars

----------------------------------------------------------------------------
(* Claims about the review commands *)

\* rs has one result for each chunk of cs, the i-th for the i-th chunk.
OneResultPerChunk(rs, cs) ==
    /\ Len(rs) = Len(cs)
    /\ \A i \in 1..Len(cs) :
          rs[i].chunkId = ChunkId(cs[i]) /\ rs[i].filePath = cs[i].filePath

SessionCompleted == session.pc = "done" /\ session.outcome \in {"shown", "dropped"}

\* C26: in a whole-submission review, and for each selected backend of a
\* multi-model review, the list of results has exactly one result for each
\* parsed chunk, the i-th result carrying the identity of the i-th chunk in
\* parser order, also when backend calls fail or answer undecodable text.
C26_OneResultPerChunkInOrder ==
    SessionCompleted =>
        \E cs \in {ChunksInOrder(session.fullDiff, session.files)} :
            /\ session.kind = "review" => OneResultPerChunk(session.results, cs)
            /\ session.kind = "multi" =>
                  /\ Len(session.modelResults) = Len(session.selectedModels)
                  /\ \A m \in 1..Len(session.selectedModels) :
                        /\ session.modelResults[m].modelName = session.selectedModels[m].name
                        /\ OneResultPerChunk(session.modelResults[m].results, cs)

\* A comparison of two backends over two chunks is completed: for the first
\* backend one call failed and one answered undecodable text.
C26_Witness ==
    /\ SessionCompleted
    /\ session.kind = "multi"
    /\ Len(session.modelResults) = 2
    /\ Len(session.modelResults[1].results) = 2
    /\ session.modelResults[1].results[1].summary =
          JStr(<<"Copilot unavailable: ", "Response got filtered">>)
    /\ session.modelResults[1].results[2].summary =
          JStr(<<"Review completed (unstructured response)">>)
    /\ session.modelResults[2].results[1].summary = JStr(<<"Adds a login check">>)

SessionCancelled == session.pc \notin {"idle", "done"} /\ session.panel = "disposed"

\* C27: once the session is cancelled no further backend call is started for
\* its remaining chunks and the backend request in flight is abandoned, so
\* that no result is added; the results produced before stay as they are.
C27_CancelledSessionStops ==
    [][SessionCancelled =>
          /\ session'.asks = session.asks
          /\ session'.results = session.results \/ session'.results = <<>>
          /\ Len(session'.modelResults) >= Len(session.modelResults)
          /\ SubSeq(session'.modelResults, 1, Len(session.modelResults)) = session.modelResults]_vars

====
